---- MODULE Spec2Model ----
(***************************************************************************)
(* A model of the retrieval-and-orchestration engine of the RAG agent:     *)
(* the session store (app/agent/memory.py), the vector store and the       *)
(* retriever (app/rag), and the agent loop (app/agent/ai_agent.py).        *)
(*                                                                         *)
(* Time is an integer clock `now`, read by every time.time() call.  The    *)
(* code of one store call, and of one stretch of process_query between two *)
(* external calls, runs at one clock value; the clock advances between     *)
(* calls and while an external completion or embedding call is pending.    *)
(***************************************************************************)
EXTENDS Integers, Sequences, FiniteSets, TLC

VARIABLES
    sessions,            \* SessionMemory.sessions: id -> list of Message
    session_timestamps,  \* SessionMemory.session_timestamps: id -> last activity
    appended,            \* history: id -> every Message appended to the live session
    max_history,         \* SessionMemory.max_history
    ttl,                 \* SessionMemory.ttl
    now,                 \* the clock read by time.time()
    nextId,              \* the next identifier uuid4() hands out
    nappend,             \* number of add_message calls made directly on the store
    lastCall,            \* the store call made by the last step, with what it returned
    index,               \* VectorStore.index: None, or the rows of the FAISS index
    documents,           \* VectorStore.documents
    is_initialized,      \* VectorStore.is_initialized
    dimension,           \* VectorStore.dimension
    disk,                \* the two artifacts under settings.vector_store_path
    lastIdx,             \* the vector store call made by the last step, with its outcome
    saved,               \* history: the store and the artifacts at the last complete save
    nadd,                \* number of add_documents calls made directly on the store
    pc,                  \* where the request in flight stands in process_query
    req,                 \* the arguments of the process_query call in flight
    loc,                 \* the local variables of that call
    nq,                  \* number of process_query calls started
    inflight,            \* add_message calls requested and not yet run
    ran,                 \* history: the add_message calls run, in the order they ran
    text,                \* _split_text: the text being split, a list of characters
    chunk_size,          \* DocumentRetriever.chunk_size
    chunk_overlap,       \* DocumentRetriever.chunk_overlap
    start,               \* _split_text: start
    end,                 \* _split_text: end, as the last iteration left it
    chunks,              \* _split_text: chunks
    cuts,                \* history: the start and end of each iteration of _split_text
    spc,                 \* where _split_text stands: the loop test, the loop body, returned
    files,               \* the directory load_documents_from_directory reads
    fi,                  \* load_documents_from_directory: the file the loop is at
    loaded,              \* load_documents_from_directory: documents
    produced             \* history: per file read, the chunks _split_text returned for it

memVars == <<sessions, session_timestamps, appended, max_history, ttl, now,
             nextId, nappend, lastCall>>

indexVars == <<index, documents, is_initialized, dimension, disk, lastIdx, saved, nadd>>

agentVars == <<pc, req, loc, nq>>

connVars == <<inflight, ran>>

splitVars == <<text, chunk_size, chunk_overlap, start, end, chunks, cuts, spc>>

ingestVars == <<files, fi, loaded, produced>>

ragVars == <<splitVars, ingestVars>>

vars == <<memVars, indexVars, agentVars, connVars, ragVars>>

(***************************************************************************)
(* Bounds of the model.                                                    *)
(***************************************************************************)
MaxTime == 2        \* the clock runs from 0 to MaxTime
MaxIds == 1         \* sessions created directly on the store in one behaviour
MaxAppends == 3     \* direct add_message calls in one behaviour
MaxQueries == 2     \* process_query calls in one behaviour
MaxSweepIds == 2    \* sessions created in one behaviour of the sweep specification
MaxSweepAppends == 1 \* add_message calls in one behaviour of the sweep specification
MaxRequests == 3    \* add_message calls requested in one behaviour
MaxAdds == 1        \* add_documents calls in one behaviour of the vector store
MaxK == 2           \* the largest k a search is given

\* the configurations of SessionMemory the model starts from
TTLs == {1}
Histories == {0, 1}

None == 0                  \* Python None (and the empty string) as a session id
UnknownId == None - 1      \* an id no create_session call ever returned
SidInputs == (1..(nextId - 1)) \cup {UnknownId}
Roles == {"system", "user"}

(***************************************************************************)
(* Helpers for Python dicts and list slices.                               *)
(***************************************************************************)
Min(a, b) == IF a < b THEN a ELSE b

DictGet(d, k, default) == IF k \in DOMAIN d THEN d[k] ELSE default

DictSet(d, k, v) == [x \in DOMAIN d \cup {k} |-> IF x = k THEN v ELSE d[x]]

DictDel(d, k) == [x \in DOMAIN d \ {k} |-> d[x]]

\* seq[-n:] : the last n elements; -0 is 0, so seq[-0:] is the whole list
SliceLast(seq, n) ==
    IF n = 0 \/ n >= Len(seq) THEN seq
    ELSE SubSeq(seq, Len(seq) - n + 1, Len(seq))

IsSystem(m) == m.role = "system"

NotSystem(m) == m.role # "system"

(***************************************************************************)
(* app/agent/memory.py                                                     *)
(***************************************************************************)
Message(role, content, t) == [role |-> role, content |-> content, timestamp |-> t]

to_dict(m) == [role |-> m.role, content |-> m.content]

\* a store value: the two dicts of SessionMemory and the append history
Store == [s |-> sessions, t |-> session_timestamps, a |-> appended]

cleanup_session(st, sid) ==
    [s |-> IF sid \in DOMAIN st.s THEN DictDel(st.s, sid) ELSE st.s,
     t |-> IF sid \in DOMAIN st.t THEN DictDel(st.t, sid) ELSE st.t,
     a |-> IF sid \in DOMAIN st.a THEN DictDel(st.a, sid) ELSE st.a]

session_expired_at_ttl(st, sid, t) == t - DictGet(st.t, sid, 0) >= ttl

\* time.time() - last_access > self.ttl
session_expired(st, sid, t) == t - DictGet(st.t, sid, 0) > ttl

\* _is_session_valid: the value returned
is_session_valid(st, sid, t) ==
    IF sid \notin DOMAIN st.s THEN FALSE
    ELSE IF session_expired(st, sid, t) THEN FALSE
    ELSE TRUE

after_is_session_valid_keeping(st, sid, t) == st

\* the check subscripts the defaultdict of sessions with an id that is not in it
after_is_session_valid_subscripting(st, sid, t) ==
    IF sid \notin DOMAIN st.s THEN [st EXCEPT !.s = DictSet(st.s, sid, <<>>)]
    ELSE IF session_expired(st, sid, t) THEN cleanup_session(st, sid)
    ELSE st

\* a session found valid has its timestamp set to the time of the check
after_is_session_valid_touching(st, sid, t) ==
    IF sid \notin DOMAIN st.s THEN st
    ELSE IF session_expired(st, sid, t) THEN cleanup_session(st, sid)
    ELSE [st EXCEPT !.t = DictSet(st.t, sid, t)]

\* _is_session_valid: the store it leaves
after_is_session_valid(st, sid, t) ==
    IF sid \notin DOMAIN st.s THEN st
    ELSE IF session_expired(st, sid, t) THEN cleanup_session(st, sid)
    ELSE st

create_session(st, sid, t) ==
    [s |-> DictSet(st.s, sid, <<>>),
     t |-> DictSet(st.t, sid, t),
     a |-> DictSet(st.a, sid, <<>>)]

trim_history_system_last(msgs) ==
    IF Len(msgs) > max_history * 2
    THEN SliceLast(SelectSeq(msgs, NotSystem), max_history * 2) \o SelectSeq(msgs, IsSystem)
    ELSE msgs

\* the trimming at the end of add_message
trim_history(msgs) ==
    IF Len(msgs) > max_history * 2
    THEN SelectSeq(msgs, IsSystem) \o SliceLast(SelectSeq(msgs, NotSystem), max_history * 2)
    ELSE msgs

add_message_unchecked(st, sid, role, content, t) ==
    LET message == Message(role, content, t)
    IN  [s |-> DictSet(st.s, sid, trim_history(Append(DictGet(st.s, sid, <<>>), message))),
         t |-> DictSet(st.t, sid, t),
         a |-> DictSet(st.a, sid, Append(DictGet(st.a, sid, <<>>), message))]

\* add_message writing back a list read before the latest stored message
add_message_stale_list(st, sid, role, content, t) ==
    IF ~is_session_valid(st, sid, t) THEN after_is_session_valid(st, sid, t)
    ELSE LET message == Message(role, content, t)
             stale == IF st.s[sid] = <<>> THEN <<>>
                      ELSE SubSeq(st.s[sid], 1, Len(st.s[sid]) - 1)
         IN  [s |-> DictSet(st.s, sid, trim_history(Append(stale, message))),
              t |-> DictSet(st.t, sid, t),
              a |-> DictSet(st.a, sid, Append(st.a[sid], message))]

add_message(st, sid, role, content, t) ==
    IF ~is_session_valid(st, sid, t) THEN after_is_session_valid(st, sid, t)
    ELSE LET message == Message(role, content, t)
         IN  [s |-> DictSet(st.s, sid, trim_history(Append(st.s[sid], message))),
              t |-> DictSet(st.t, sid, t),
              a |-> DictSet(st.a, sid, Append(st.a[sid], message))]

\* get_history: the value returned
get_history(st, sid, t) ==
    IF ~is_session_valid(st, sid, t) THEN <<>>
    ELSE [i \in 1..Len(st.s[sid]) |-> to_dict(st.s[sid][i])]

session_exists(st, sid, t) == is_session_valid(st, sid, t)

cleanup_expired_sessions_at_ttl(st, t) ==
    LET expired_sessions == {sid \in DOMAIN st.t : t - st.t[sid] >= ttl}
        keep(d) == [x \in DOMAIN d \ expired_sessions |-> d[x]]
    IN  [s |-> keep(st.s), t |-> keep(st.t), a |-> keep(st.a)]

cleanup_expired_sessions(st, t) ==
    LET expired_sessions == {sid \in DOMAIN st.t : t - st.t[sid] > ttl}
        keep(d) == [x \in DOMAIN d \ expired_sessions |-> d[x]]
    IN  [s |-> keep(st.s), t |-> keep(st.t), a |-> keep(st.a)]

SetStore(st) ==
    /\ sessions' = st.s
    /\ session_timestamps' = st.t
    /\ appended' = st.a

Call(op, sid, b, h) == [op |-> op, sid |-> sid, b |-> b, h |-> h]

(***************************************************************************)
(* app/rag/embeddings.py, app/rag/vector_store.py, app/rag/retriever.py    *)
(***************************************************************************)
top_k_results == 3

\* the text of the n-th request: every request asks something new
Query(n) == "q" \o ToString(n)

\* the embedding model: a fixed vector for each text
generate_embedding(txt) ==
    CASE txt = "q1" -> <<0>>
      [] txt = "q2" -> <<5>>
      [] txt = "chunk a0" -> <<1>>
      [] txt = "chunk a1" -> <<2>>
      [] txt = "chunk b0" -> <<6>>
      [] OTHER -> <<9>>

Document(content, source, chunk_id, total) ==
    [content |-> content,
     metadata |-> [source |-> source, chunk_id |-> chunk_id, total_chunks |-> total]]

\* what load_documents_from_directory may hand to the store at startup
Corpora ==
    { <<>>,
      <<Document("chunk a0", "a.txt", 0, 2), Document("chunk a1", "a.txt", 1, 2),
        Document("chunk b0", "b.txt", 0, 1)>> }

\* a vector store value; index is <<>> for None, else <<the FAISS index>>
VStore == [index |-> index, documents |-> documents, is_initialized |-> is_initialized,
           dimension |-> dimension]

\* a fresh VectorStore
NewVStore == [index |-> <<>>, documents |-> <<>>, is_initialized |-> FALSE,
              dimension |-> None]

\* the dimension of the vectors the embedder returns
embedding_dimension == Len(generate_embedding("q1"))

\* IndexFlatL2.add refuses vectors whose length is not the index's d
add_documents_raises(vs, docs) ==
    /\ docs # <<>>
    /\ vs.index # <<>>
    /\ vs.index[1].d # embedding_dimension

\* add_documents storing the documents before the vectors
add_documents_documents_first(vs, docs) ==
    IF docs = <<>> THEN vs
    ELSE IF add_documents_raises(vs, docs)
    THEN [vs EXCEPT !.documents = @ \o docs]
    ELSE LET embeddings == [i \in 1..Len(docs) |-> generate_embedding(docs[i].content)]
             ix == IF vs.index = <<>> THEN [d |-> Len(embeddings[1]), xb |-> <<>>]
                   ELSE vs.index[1]
         IN  [index |-> <<[ix EXCEPT !.xb = @ \o embeddings]>>,
              documents |-> vs.documents \o docs,
              is_initialized |-> TRUE,
              dimension |-> IF vs.index = <<>> THEN Len(embeddings[1]) ELSE vs.dimension]

\* add_documents: the store it leaves, also when index.add raises
add_documents(vs, docs) ==
    IF docs = <<>> THEN vs
    ELSE IF add_documents_raises(vs, docs) THEN vs
    ELSE LET embeddings == [i \in 1..Len(docs) |-> generate_embedding(docs[i].content)]
             ix == IF vs.index = <<>> THEN [d |-> Len(embeddings[1]), xb |-> <<>>]
                   ELSE vs.index[1]
         IN  [index |-> <<[ix EXCEPT !.xb = @ \o embeddings]>>,
              documents |-> vs.documents \o docs,
              is_initialized |-> TRUE,
              dimension |-> IF vs.index = <<>> THEN Len(embeddings[1]) ELSE vs.dimension]

\* squared Euclidean distance of IndexFlatL2
RECURSIVE SumSq(_, _, _)
SumSq(x, y, i) == IF i > Len(x) THEN 0 ELSE (x[i] - y[i]) * (x[i] - y[i]) + SumSq(x, y, i + 1)

L2(x, y) == SumSq(x, y, 1)

\* the distance IndexFlatL2.search reports with a label -1: the largest float32,
\* here a number above every distance between two vectors of the model
FLT_MAX == 1000

\* IndexFlatL2.search: k labels by ascending distance (ties by row), -1 past the end
faiss_search(ix, q, k) ==
    LET n == Len(ix.xb)
        dist(i) == L2(ix.xb[i], q)
        rank(i) == 1 + Cardinality({j \in 1..n : dist(j) < dist(i) \/ (dist(j) = dist(i) /\ j < i)})
        row(r) == CHOOSE i \in 1..n : rank(i) = r
    IN  [r \in 1..k |-> IF r <= n THEN [idx |-> row(r) - 1, distance |-> dist(row(r))]
                        ELSE [idx |-> 0 - 1, distance |-> FLT_MAX]]

\* self.documents[idx] for a label idx, Python indexing (a negative idx counts from the end)
PyIndex(seq, idx) == IF idx >= 0 THEN seq[idx + 1] ELSE seq[Len(seq) + idx + 1]

\* whether VectorStore.search gets as far as the embedding call
search_embeds(vs) == vs.is_initialized /\ vs.index # <<>>

\* IndexFlatL2.search refuses a query vector whose length is not the index's d
search_raises(vs, query) ==
    search_embeds(vs) /\ vs.index[1].d # Len(generate_embedding(query))

search(vs, query, k) ==
    IF ~search_embeds(vs) THEN <<>>
    ELSE LET k1 == IF k = None THEN top_k_results ELSE k
             k2 == Min(k1, Len(vs.documents))
             hits == faiss_search(vs.index[1], generate_embedding(query), k2)
             kept == SelectSeq(hits, LAMBDA h : h.idx < Len(vs.documents))
         IN  [i \in 1..Len(kept) |-> <<PyIndex(vs.documents, kept[i].idx), kept[i].distance>>]

retrieve(vs, query, k) ==
    LET results == search(vs, query, k)
    IN  [i \in 1..Len(results) |->
            [content |-> results[i][1].content,
             source |-> results[i][1].metadata.source,
             chunk_id |-> results[i][1].metadata.chunk_id,
             distance |-> results[i][2]]]

\* a file under settings.vector_store_path: absent, unreadable, or holding a value
Missing == [state |-> "missing", data |-> <<>>]
Corrupt == [state |-> "corrupt", data |-> <<>>]
File(x) == [state |-> "ok", data |-> <<x>>]

\* os.path.exists
exists(f) == f.state # "missing"

\* the artifacts of a first run, those left by a run that ingested b.txt, and
\* those left by a run whose embedding model had another dimension
NoArtifacts == [index_file |-> Missing, docs_file |-> Missing]
EarlierArtifacts ==
    [index_file |-> File([d |-> 1, xb |-> <<generate_embedding("chunk b0")>>]),
     docs_file |-> File(<<Document("chunk b0", "b.txt", 0, 1)>>)]
ForeignArtifacts ==
    [index_file |-> File([d |-> 2, xb |-> << <<3, 3>> >>]),
     docs_file |-> File(<<Document("chunk z0", "z.txt", 0, 1)>>)]
Disks == {NoArtifacts, EarlierArtifacts, ForeignArtifacts}

\* how far a save gets: to its end, or until write_index, open or pickle.dump raises
SaveOutcomes == {"ok", "write_index_fails", "open_fails", "dump_fails"}

\* save: the artifacts it leaves
save(vs, dk, outcome) ==
    IF ~vs.is_initialized THEN dk
    ELSE CASE outcome = "write_index_fails" -> dk
           [] outcome = "open_fails" -> [dk EXCEPT !.index_file = File(vs.index[1])]
           [] outcome = "dump_fails" -> [index_file |-> File(vs.index[1]), docs_file |-> Corrupt]
           [] OTHER -> [index_file |-> File(vs.index[1]), docs_file |-> File(vs.documents)]

save_raises(vs, outcome) == vs.is_initialized /\ outcome # "ok"

\* load: the value returned
load_returns(dk) ==
    /\ exists(dk.index_file) /\ exists(dk.docs_file)
    /\ dk.index_file.state = "ok"
    /\ dk.docs_file.state = "ok"

\* load that takes the index and not the documents
load_index_only(vs, dk) ==
    IF load_returns(dk)
    THEN [index |-> dk.index_file.data, documents |-> vs.documents,
          is_initialized |-> TRUE, dimension |-> vs.dimension]
    ELSE vs

\* load: the store it leaves
load(vs, dk) ==
    IF ~exists(dk.index_file) \/ ~exists(dk.docs_file) THEN vs
    ELSE IF dk.index_file.state = "corrupt" THEN vs
    ELSE IF dk.docs_file.state = "corrupt" THEN [vs EXCEPT !.index = dk.index_file.data]
    ELSE [index |-> dk.index_file.data, documents |-> dk.docs_file.data[1],
          is_initialized |-> TRUE, dimension |-> vs.dimension]

\* clear that keeps the index
clear_documents_only(vs) ==
    [index |-> vs.index, documents |-> <<>>, is_initialized |-> vs.is_initialized,
     dimension |-> vs.dimension]

clear(vs) ==
    [index |-> <<>>, documents |-> <<>>, is_initialized |-> FALSE,
     dimension |-> vs.dimension]

\* how far initialize_vector_store gets when it ingests
InitOutcomes == SaveOutcomes \cup {"embed_fails"}

\* initialize_vector_store that ingests whatever load returned
initialize_vector_store_always_ingesting(vs, dk, docs, outcome) ==
    LET v1 == load(vs, dk)
    IN  IF docs = <<>> THEN [vs |-> v1, disk |-> dk, raised |-> FALSE]
        ELSE IF outcome = "embed_fails" \/ add_documents_raises(v1, docs)
        THEN [vs |-> v1, disk |-> dk, raised |-> TRUE]
        ELSE LET v2 == add_documents(v1, docs)
             IN  [vs |-> v2, disk |-> save(v2, dk, outcome),
                  raised |-> save_raises(v2, outcome)]

\* initialize_vector_store: the store and the artifacts it leaves, and whether
\* it raised
initialize_vector_store(vs, dk, docs, outcome) ==
    LET v1 == load(vs, dk)
    IN  IF load_returns(dk) THEN [vs |-> v1, disk |-> dk, raised |-> FALSE]
        ELSE IF docs = <<>> THEN [vs |-> v1, disk |-> dk, raised |-> FALSE]
        ELSE IF outcome = "embed_fails" \/ add_documents_raises(v1, docs)
        THEN [vs |-> v1, disk |-> dk, raised |-> TRUE]
        ELSE LET v2 == add_documents(v1, docs)
             IN  [vs |-> v2, disk |-> save(v2, dk, outcome),
                  raised |-> save_raises(v2, outcome)]

\* a vector store call and its outcome: whether it raised, what load or
\* initialize_vector_store found (for a search: whether the embedder was called),
\* the arguments and the results
IdxCall(op, raised, ret, query, given, k, results, docs) ==
    [op |-> op, raised |-> raised, ret |-> ret, query |-> query, given |-> given,
     k |-> k, results |-> results, docs |-> docs]

NoIdxCall == IdxCall("init", FALSE, FALSE, "", FALSE, None, <<>>, <<>>)

\* no text is being split
NoSplit ==
    /\ text = <<>>
    /\ chunk_size = 1
    /\ chunk_overlap = 0
    /\ start = 0
    /\ end = 0
    /\ chunks = <<>>
    /\ cuts = <<>>
    /\ spc = "idle"

\* no directory is being read
NoIngest ==
    /\ files = <<>>
    /\ fi = 0
    /\ loaded = <<>>
    /\ produced = <<>>

(***************************************************************************)
(* app/agent/ai_agent.py                                                   *)
(***************************************************************************)
SYSTEM_PROMPT == "You are a helpful AI assistant with access to company knowledge base."

\* the content of the j-th completion reply of the n-th request: always a new text
Answer(n, j) == "a" \o ToString(n) \o "." \o ToString(j)

\* "\n".join of the formatted results, from the i-th on
RECURSIVE JoinResults(_, _)
JoinResults(results, i) ==
    LET one == "[Document " \o ToString(i) \o " - " \o results[i].source \o "]\n"
               \o results[i].content \o "\n"
    IN  IF i = Len(results) THEN one ELSE one \o "\n" \o JoinResults(results, i + 1)

\* _search_documents
search_documents(vs, query, num_results) ==
    LET results == retrieve(vs, query, num_results)
    IN  IF results = <<>> THEN "No relevant documents found."
        ELSE JoinResults(results, 1)

\* the tool calls a reply may carry: tool_call.function.arguments is a JSON text,
\* here whether it parses and the dict json.loads returns
SearchDefault == [name |-> "search_documents", json_ok |-> TRUE, args |-> <<>>]

SearchOne ==
    [name |-> "search_documents", json_ok |-> TRUE,
     args |-> [query |-> "q2", num_results |-> 1]]

SearchBadJson == [name |-> "search_documents", json_ok |-> FALSE, args |-> <<>>]

Lookup == [name |-> "lookup", json_ok |-> TRUE, args |-> <<>>]

ToolCallLists ==
    { <<SearchDefault>>, <<SearchOne>>, <<SearchDefault, SearchOne>>,
      <<SearchOne, Lookup>>, <<Lookup>>, <<SearchDefault, SearchBadJson>> }

tool_call_id(i) == "call_" \o ToString(i)

\* what the completion capability may answer to the first call of request n
Replies(n) ==
    {[content |-> Answer(n, 1), tool_calls |-> <<>>]}
        \cup {[content |-> "", tool_calls |-> tcs] : tcs \in ToolCallLists}

\* the two chat.completions.create calls
first_call(messages) == [messages |-> messages, tools |-> "TOOLS", tool_choice |-> "auto"]

second_call_with_tools(messages) ==
    [messages |-> messages, tools |-> "TOOLS", tool_choice |-> "auto"]

second_call(messages) == [messages |-> messages, tools |-> "", tool_choice |-> ""]

\* lines 110-122: resolve the session, append the user message, fetch the history
resolve_session(st, session_id, new_id, t) ==
    IF session_id # None /\ session_exists(st, session_id, t)
    THEN [st |-> st, session_id |-> session_id, created |-> FALSE]
    ELSE LET st0 == IF session_id # None THEN after_is_session_valid(st, session_id, t) ELSE st
             st1 == create_session(st0, new_id, t)
         IN  [st |-> add_message(st1, new_id, "system", SYSTEM_PROMPT, t),
              session_id |-> new_id, created |-> TRUE]

extract_sources_first(retrieved_docs) ==
    IF retrieved_docs = <<>> THEN {} ELSE {retrieved_docs[1].source}

\* sources = list(set(...)): the distinct sources, in no particular order
extract_sources(retrieved_docs) ==
    {retrieved_docs[i].source : i \in 1..Len(retrieved_docs)}

\* the tool message appended for one search_documents call
tool_message(i, function_name, search_results) ==
    [tool_call_id |-> tool_call_id(i), role |-> "tool", name |-> function_name,
     content |-> search_results]

\* line 142: the assistant message carrying the tool calls
response_message(reply) ==
    [role |-> "assistant", content |-> reply.content, tool_calls |-> reply.tool_calls]

direct_answer_empty(reply) == ""

\* lines 178-181: the answer when the reply carries no tool call
direct_answer(reply) == reply.content

persist_answer_with_tools(st, session_id, messages, final_answer, t) ==
    LET tools == SelectSeq(messages, LAMBDA m : m.role = "tool")
        st1 == IF tools = <<>> THEN st
               ELSE add_message(st, session_id, "tool", tools[1].content, t)
    IN  add_message(st1, session_id, "assistant", final_answer, t)

\* line 184: what the query stores once the final answer is known
persist_answer(st, session_id, messages, final_answer, t) ==
    add_message(st, session_id, "assistant", final_answer, t)

\* the request slot and the locals of process_query when no call is in flight
NoReq == [query |-> "", session_id |-> None]

NoLoc == [session_id |-> None]

(***************************************************************************)
(* The session store driven directly through its public methods.           *)
(***************************************************************************)
InitMem ==
    /\ sessions = <<>>
    /\ session_timestamps = <<>>
    /\ appended = <<>>
    /\ max_history \in Histories
    /\ ttl \in TTLs
    /\ now = 0
    /\ nextId = 1
    /\ nappend = 0
    /\ lastCall = Call("init", None, FALSE, <<>>)
    /\ index = <<>>
    /\ documents = <<>>
    /\ is_initialized = FALSE
    /\ dimension = None
    /\ disk = NoArtifacts
    /\ lastIdx = NoIdxCall
    /\ saved = <<>>
    /\ nadd = 0
    /\ pc = "idle"
    /\ req = NoReq
    /\ loc = NoLoc
    /\ nq = 0
    /\ inflight = {}
    /\ ran = <<>>
    /\ NoSplit
    /\ NoIngest

Tick ==
    /\ now < MaxTime
    /\ now' = now + 1
    /\ lastCall' = Call("tick", None, FALSE, <<>>)
    /\ UNCHANGED <<sessions, session_timestamps, appended, max_history, ttl,
                   nextId, nappend, indexVars, connVars, ragVars, agentVars>>

MemCreate ==
    /\ nextId <= MaxIds
    /\ SetStore(create_session(Store, nextId, now))
    /\ nextId' = nextId + 1
    /\ lastCall' = Call("create_session", nextId, TRUE, <<>>)
    /\ UNCHANGED <<max_history, ttl, now, nappend, indexVars, connVars, ragVars, agentVars>>

MemAdd ==
    /\ nappend < MaxAppends
    /\ \E sid \in SidInputs, role \in Roles :
          /\ SetStore(add_message(Store, sid, role, ToString(nappend + 1), now))
          /\ lastCall' = Call("add_message", sid, is_session_valid(Store, sid, now),
                              <<Message(role, ToString(nappend + 1), now)>>)
    /\ nappend' = nappend + 1
    /\ UNCHANGED <<max_history, ttl, now, nextId, indexVars, connVars, ragVars, agentVars>>

MemHistory ==
    /\ \E sid \in SidInputs :
          /\ SetStore(after_is_session_valid(Store, sid, now))
          /\ lastCall' = Call("get_history", sid, is_session_valid(Store, sid, now),
                              get_history(Store, sid, now))
    /\ UNCHANGED <<max_history, ttl, now, nextId, nappend, indexVars, connVars, ragVars, agentVars>>

MemExists ==
    /\ \E sid \in SidInputs :
          /\ SetStore(after_is_session_valid(Store, sid, now))
          /\ lastCall' = Call("session_exists", sid, session_exists(Store, sid, now), <<>>)
    /\ UNCHANGED <<max_history, ttl, now, nextId, nappend, indexVars, connVars, ragVars, agentVars>>

MemSweep ==
    /\ SetStore(cleanup_expired_sessions(Store, now))
    /\ lastCall' = Call("cleanup_expired_sessions", None, FALSE, <<>>)
    /\ UNCHANGED <<max_history, ttl, now, nextId, nappend, indexVars, connVars, ragVars, agentVars>>

(***************************************************************************)
(* The service: startup, then process_query calls handled one at a time    *)
(* (ask_question calls it synchronously).  The clock may advance between   *)
(* requests and while a completion or embedding call is pending.           *)
(***************************************************************************)
Init ==
    /\ sessions = <<>>
    /\ session_timestamps = <<>>
    /\ appended = <<>>
    /\ max_history \in Histories
    /\ ttl \in TTLs
    /\ now = 0
    /\ nextId = 1
    /\ nappend = 0
    /\ lastCall = Call("init", None, FALSE, <<>>)
    /\ index = <<>>
    /\ documents = <<>>
    /\ is_initialized = FALSE
    /\ dimension = None
    /\ disk = NoArtifacts
    /\ lastIdx = NoIdxCall
    /\ saved = <<>>
    /\ nadd = 0
    /\ pc = "boot"
    /\ req = NoReq
    /\ loc = NoLoc
    /\ nq = 0
    /\ inflight = {}
    /\ ran = <<>>
    /\ NoSplit
    /\ NoIngest

SetVStore(vs) ==
    /\ index' = vs.index
    /\ documents' = vs.documents
    /\ is_initialized' = vs.is_initialized
    /\ dimension' = vs.dimension

\* main.py lifespan: initialize_vector_store before serving
Lifespan ==
    /\ pc = "boot"
    /\ \E docs \in Corpora, outcome \in {"ok", "embed_fails"} :
          LET r == initialize_vector_store(VStore, disk, docs, outcome)
          IN  /\ SetVStore(r.vs)
              /\ disk' = r.disk
    /\ pc' = "idle"
    /\ UNCHANGED <<memVars, connVars, ragVars, req, loc, nq, lastIdx, saved, nadd>>

Wait ==
    /\ pc \in {"idle", "await_model", "tools", "await_final"}
    /\ now < MaxTime
    /\ now' = now + 1
    /\ UNCHANGED <<sessions, session_timestamps, appended, max_history, ttl,
                   nextId, nappend, lastCall, indexVars, connVars, ragVars, agentVars>>

\* process_query, lines 110-122
StartWith(query) ==
    /\ pc = "idle"
    /\ nq < MaxQueries
    /\ \E session_id \in {None, UnknownId} \cup (1..(nextId - 1)) :
          LET r == resolve_session(Store, session_id, nextId, now)
              st1 == add_message(r.st, r.session_id, "user", query, now)
              messages == get_history(st1, r.session_id, now)
          IN  /\ SetStore(after_is_session_valid(st1, r.session_id, now))
              /\ nextId' = IF r.created THEN nextId + 1 ELSE nextId
              /\ req' = [query |-> query, session_id |-> session_id]
              /\ loc' = [session_id |-> r.session_id, messages |-> messages,
                         calls |-> <<>>, response |-> <<>>, second_response |-> <<>>,
                         i |-> 1, sources |-> {}, retrieved |-> <<>>,
                         final_answer |-> "", nembed |-> 0, nsearch |-> 0,
                         external |-> <<>>, error |-> "",
                         pre |-> [s |-> sessions, t |-> session_timestamps,
                                  a |-> appended, now |-> now]]
    /\ pc' = "await_model"
    /\ nq' = nq + 1
    /\ UNCHANGED <<max_history, ttl, now, nappend, lastCall, indexVars, connVars, ragVars>>

Start == StartWith(Query(nq + 1))

\* lines 186-190: the dict process_query returns
result == [answer |-> loc.final_answer, sources |-> loc.sources,
           session_id |-> loc.session_id]

\* the outcome of process_query: it returns, or the exception is raised again
Return(l) == pc' = "done" /\ loc' = l

\* the failed query's last message is taken out of its session again
after_failure_rolled_back(st, session_id) ==
    IF session_id \in DOMAIN st.s /\ st.s[session_id] # <<>>
    THEN [st EXCEPT !.s[session_id] = SubSeq(@, 1, Len(@) - 1)]
    ELSE st

\* lines 192-194: the except clause logs and raises again; the store is as it was
after_failure(st, session_id) == st

\* e is the text of the exception, str(e)
Raise(l, e) ==
    /\ pc' = "failed"
    /\ loc' = [l EXCEPT !.error = e]
    /\ SetStore(after_failure(Store, l.session_id))

\* the texts of the exceptions of the completion client, the embedder and json.loads
CompletionError == "Error code: 401 - Incorrect API key provided"

EmbeddingError == "Connection error."

JsonError == "Expecting value: line 1 column 1 (char 0)"

\* a failed call to a completion or embedding service is made again
with_call_retried(l, kind, ok) ==
    LET once == [l EXCEPT !.external = Append(@, [call |-> kind, ok |-> ok])]
    IN  IF ok THEN once ELSE [once EXCEPT !.external = Append(@, [call |-> kind, ok |-> ok])]

\* history: a call to a completion or embedding service is made, and succeeds or not
with_call(l, kind, ok) ==
    [l EXCEPT !.external = Append(@, [call |-> kind, ok |-> ok])]

\* lines 126-137 and 178-190: the first completion call
CompleteFirst ==
    /\ pc = "await_model"
    /\ LET made(ok) == with_call([loc EXCEPT !.calls = Append(@, first_call(loc.messages))],
                                  "completion", ok)
           called == made(TRUE)
       IN  \/ Raise(made(FALSE), CompletionError)
           \/ \E reply \in Replies(nq) :
                 IF reply.tool_calls # <<>>
                 THEN /\ pc' = "tools"
                      /\ loc' = [called EXCEPT !.response = <<reply>>,
                                               !.messages = Append(@, response_message(reply))]
                      /\ UNCHANGED <<sessions, session_timestamps, appended>>
                 ELSE /\ SetStore(persist_answer(Store, loc.session_id, loc.messages,
                                                 direct_answer(reply), now))
                      /\ Return([called EXCEPT !.response = <<reply>>,
                                               !.final_answer = direct_answer(reply)])
    /\ UNCHANGED <<max_history, ttl, now, nextId, nappend, lastCall, indexVars, connVars, ragVars, req, nq>>

\* lines 145-169: one iteration of the loop over the tool calls
ToolCall ==
    /\ pc = "tools"
    /\ LET tool_call == loc.response[1].tool_calls[loc.i]
           function_args == tool_call.args
           q == DictGet(function_args, "query", req.query)
           k == DictGet(function_args, "num_results", 3)
           embeds == IF search_embeds(VStore) THEN 1 ELSE 0
           retrieved_docs == retrieve(VStore, q, k)
           next_pc == IF loc.i = Len(loc.response[1].tool_calls) THEN "await_final" ELSE "tools"
           first == IF embeds = 1 THEN with_call(loc, "embedding", TRUE) ELSE loc
           \* the embedding calls of the two retrievals: n succeed, and then
           \* either the second succeeds as well or the next one fails
           embedded(n, all) ==
               IF all THEN (IF n = 1 THEN with_call(first, "embedding", TRUE) ELSE loc)
               ELSE with_call(IF n = 1 THEN first ELSE loc, "embedding", FALSE)
       IN  IF ~tool_call.json_ok
           THEN Raise(loc, JsonError)
           ELSE IF tool_call.name = "search_documents"
           THEN \/ /\ pc' = next_pc
                   /\ loc' = [embedded(embeds, TRUE) EXCEPT
                                !.i = @ + 1,
                                !.sources = extract_sources(retrieved_docs),
                                !.retrieved = Append(@, retrieved_docs),
                                !.messages = Append(@, tool_message(loc.i, tool_call.name,
                                                        search_documents(VStore, q, k))),
                                !.nembed = @ + 2 * embeds,
                                !.nsearch = @ + 2]
                   /\ UNCHANGED <<sessions, session_timestamps, appended>>
                \/ /\ embeds = 1
                   /\ \E attempt \in 1..2 :
                         Raise([embedded(attempt - 1, FALSE) EXCEPT
                                  !.nembed = @ + attempt, !.nsearch = @ + attempt],
                               EmbeddingError)
           ELSE /\ pc' = next_pc
                /\ loc' = [loc EXCEPT !.i = @ + 1]
                /\ UNCHANGED <<sessions, session_timestamps, appended>>
    /\ UNCHANGED <<max_history, ttl, now, nextId, nappend, lastCall, indexVars, connVars,
                   ragVars, req, nq>>

\* lines 172-190: the second completion call
CompleteSecond ==
    /\ pc = "await_final"
    /\ LET made(ok) == with_call([loc EXCEPT !.calls = Append(@, second_call(loc.messages))],
                                  "completion", ok)
           called == made(TRUE)
       IN  \/ Raise(made(FALSE), CompletionError)
           \/ LET second_response == [content |-> Answer(nq, 2), tool_calls |-> <<>>]
              IN  /\ SetStore(persist_answer(Store, loc.session_id, loc.messages,
                                             second_response.content, now))
                  /\ Return([called EXCEPT !.second_response = <<second_response>>,
                                            !.final_answer = second_response.content])
    /\ UNCHANGED <<max_history, ttl, now, nextId, nappend, lastCall, indexVars, connVars, ragVars, req, nq>>

\* routes.py ask_question: the response is sent and the handler is free again
Finish ==
    /\ pc \in {"done", "failed", "rejected"}
    /\ pc' = "idle"
    /\ req' = NoReq
    /\ loc' = NoLoc
    /\ UNCHANGED <<memVars, indexVars, connVars, ragVars, nq>>

Next == Lifespan \/ Wait \/ Start \/ CompleteFirst \/ ToolCall \/ CompleteSecond \/ Finish

Spec == Init /\ [][Next]_vars

NextMem == Tick \/ MemCreate \/ MemAdd \/ MemHistory \/ MemExists \/ MemSweep

SpecMem == InitMem /\ [][NextMem]_vars

(***************************************************************************)
(* Properties.                                                             *)
(***************************************************************************)
\* a query has ended: process_query returned or raised
Ended == pc \in {"done", "failed"}

\* the first completion call was answered, and its tool calls
Answered == pc \notin {"boot", "idle"} /\ loc.response # <<>>

ToolCalls == loc.response[1].tool_calls

\* the session is present and not expired at the current time
IsLive(sid) ==
    sid \in DOMAIN sessions /\ now - session_timestamps[sid] <= ttl

DistinctSources(docs) == {docs[i].source : i \in 1..Len(docs)}

IsSuffix(a, b) ==
    Len(a) <= Len(b) /\ a = SubSeq(b, Len(b) - Len(a) + 1, Len(b))

\* C1, as stated: a query that has ended made exactly one completion call when
\* the first reply carried no tool call and exactly two when it carried tool
\* calls, the second without a tool schema and its content the final answer.
C1_ExactlyTwoWithToolCalls ==
    (Ended /\ Answered) =>
        IF ToolCalls = <<>> THEN Len(loc.calls) = 1
        ELSE /\ Len(loc.calls) = 2
             /\ loc.calls[2].tools = ""

\* C1, amended: never more than two completion calls per query; exactly one
\* when the first reply carries no tool call; exactly two when it carries tool
\* calls and the query returns (a failure while the tool calls are executed
\* ends the query after the first call); the second call carries no tool schema,
\* its content is the answer, and no tool call is executed after it.
C1_AtMostOneToolRound ==
    pc \notin {"boot", "idle"} =>
        /\ Len(loc.calls) <= 2
        /\ (Len(loc.calls) >= 1 => loc.calls[1].tools = "TOOLS")
        /\ (Len(loc.calls) = 2 => loc.calls[2].tools = "" /\ pc \in {"done", "failed"})
        /\ (pc = "tools" => Len(loc.calls) = 1)
        /\ (Ended /\ Answered /\ ToolCalls = <<>> => Len(loc.calls) = 1)
        /\ (pc = "done" /\ ToolCalls # <<>> =>
                /\ Len(loc.calls) = 2
                /\ loc.second_response # <<>>
                /\ result.answer = loc.second_response[1].content)
        /\ (pc = "failed" /\ Answered /\ ToolCalls # <<>> => Len(loc.calls) \in {1, 2})

\* a query that searched returned after two completion calls
C1_Witness ==
    pc = "done" /\ ToolCalls # <<>> /\ loc.nsearch > 0 /\ Len(loc.calls) = 2

\* C2: when the first reply requests several search_documents calls, the
\* sources returned are the union of the distinct sources of the results
\* retrieved by all of those calls.
C2_SourcesAreUnion ==
    (pc = "done" /\ Len(loc.retrieved) >= 2) =>
        result.sources = UNION {DistinctSources(loc.retrieved[i]) : i \in 1..Len(loc.retrieved)}

\* C3, as stated: whenever search_documents was requested, whatever the index
\* holds, the sources returned are non-empty and are the distinct sources of
\* the results retrieved.
C3_SourcesNonEmpty ==
    (pc = "done" /\ loc.retrieved # <<>>) =>
        /\ result.sources # {}
        /\ result.sources = DistinctSources(loc.retrieved[Len(loc.retrieved)])

\* C3, amended: whenever search_documents was requested, the sources returned
\* are the distinct sources of the results retrieved for the last
\* search_documents call; they are sources of stored documents, and they are
\* empty exactly when that retrieval returned nothing, as it does on an index
\* that holds no entry.
C3_SourcesOfLastRetrieval ==
    (pc = "done" /\ loc.retrieved # <<>>) =>
        LET last == loc.retrieved[Len(loc.retrieved)]
        IN  /\ result.sources = DistinctSources(last)
            /\ (result.sources = {} <=> last = <<>>)
            /\ (documents = <<>> => last = <<>>)
            /\ \A s \in result.sources :
                  \E i \in 1..Len(documents) : documents[i].metadata.source = s

C3_Witness ==
    pc = "done" /\ loc.retrieved # <<>> /\ Cardinality(result.sources) = 2

C3_WitnessEmpty ==
    pc = "done" /\ loc.retrieved # <<>> /\ result.sources = {}

\* C4: when the first reply carries no tool call, the answer returned is that
\* reply's content, the sources are empty, and no embedding call and no index
\* search was made.
C4_DirectAnswer ==
    (pc = "done" /\ ToolCalls = <<>>) =>
        /\ result.answer = loc.response[1].content
        /\ result.sources = {}
        /\ loc.nembed = 0
        /\ loc.nsearch = 0
        /\ loc.retrieved = <<>>

C4_Witness ==
    pc = "done" /\ ToolCalls = <<>> /\ documents # <<>> /\ result.answer = Answer(nq, 1)

\* the step that resolves the session of a new request (lines 110-122)
Resolving == pc = "idle" /\ pc' = "await_model"

\* C5: process_query returns the supplied session_id exactly when that id names
\* a session present and not expired at resolution time; otherwise it returns
\* a freshly created id, different from the supplied one, whose history is the
\* system message followed by this query, with no message of an older session.
C5_ResolveSession ==
    [][ /\ Resolving =>
            LET supplied == req'.session_id
                own == loc'.session_id
            IN  /\ (own = supplied) <=> IsLive(supplied)
                /\ IsLive(supplied) => sessions'[own][1] = sessions[own][1]
                /\ ~IsLive(supplied) =>
                      /\ own # supplied
                      /\ own \notin 1..(nextId - 1)
                      /\ own \notin DOMAIN sessions
                      /\ sessions'[own] = <<Message("system", SYSTEM_PROMPT, now),
                                            Message("user", req'.query, now)>>
                      /\ loc'.messages = <<[role |-> "system", content |-> SYSTEM_PROMPT],
                                           [role |-> "user", content |-> req'.query]>>
        /\ (pc \notin {"boot", "idle"} /\ pc' \notin {"boot", "idle"}) =>
            loc'.session_id = loc.session_id
        /\ (pc' = "done") => result'.session_id = loc'.session_id ]_vars

\* a request that named an expired session runs under a fresh id
C5_Witness ==
    /\ pc = "await_model"
    /\ req.session_id \in 1..(nextId - 1)
    /\ req.session_id \in DOMAIN loc.pre.s
    /\ loc.session_id # req.session_id

\* the messages the query has appended to its session when it returns
QueryAppends ==
    (IF loc.session_id \in DOMAIN loc.pre.s THEN <<>>
     ELSE <<Message("system", SYSTEM_PROMPT, loc.pre.now)>>)
    \o <<Message("user", req.query, loc.pre.now),
         Message("assistant", result.answer, now)>>

AppendedBefore ==
    IF loc.session_id \in DOMAIN loc.pre.a THEN loc.pre.a[loc.session_id] ELSE <<>>

SessionUnchanged(sid) ==
    /\ sid \in DOMAIN sessions
    /\ sid \in DOMAIN session_timestamps
    /\ sessions[sid] = loc.pre.s[sid]
    /\ session_timestamps[sid] = loc.pre.t[sid]

\* C6, as stated, in its last clause: a query that returns has modified no
\* session other than its own.
C6_NoOtherSessionModified ==
    pc = "done" =>
        \A sid \in DOMAIN loc.pre.s \ {loc.session_id} : SessionUnchanged(sid)

\* C6, amended: a query that returns has changed the store only (a) by evicting
\* the session named by the request when it was found expired, (b) by appending
\* to its own session the user query and then the answer (after the system
\* message when the session is new), each append followed by the trimming of
\* add_message, or, when its own session expired while the completer or the
\* embedder was called, by evicting it without storing the answer.  The
\* assistant tool-call message and the tool results are never stored and no
\* other session is modified.
C6_FrameOfQuery ==
    pc = "done" =>
        LET own == loc.session_id
            supplied == req.session_id
        IN  /\ DOMAIN sessions \subseteq DOMAIN loc.pre.s \cup {own}
            /\ DOMAIN session_timestamps = DOMAIN sessions
            /\ \A sid \in DOMAIN loc.pre.s \ {own} :
                  \/ SessionUnchanged(sid)
                  \/ /\ sid = supplied
                     /\ loc.pre.now - loc.pre.t[sid] > ttl
                     /\ sid \notin DOMAIN sessions
                     /\ sid \notin DOMAIN session_timestamps
            /\ IF own \in DOMAIN sessions
               THEN /\ appended[own] = AppendedBefore \o QueryAppends
                    /\ session_timestamps[own] = now
                    /\ \A i \in 1..Len(sessions[own]) :
                          /\ sessions[own][i].role \in {"system", "user", "assistant"}
                          /\ \E j \in 1..Len(appended[own]) :
                                sessions[own][i] = appended[own][j]
               ELSE now - loc.pre.now > ttl

\* a query that searched has returned and its session holds the answer
C6_Witness ==
    /\ pc = "done"
    /\ loc.retrieved # <<>>
    /\ loc.session_id \in DOMAIN sessions
    /\ loc.session_id \in DOMAIN loc.pre.s
    /\ Len(loc.messages) > Len(sessions[loc.session_id])

\* C7: every stored message list holds at most one system message, at
\* position 0 when present, followed by the non-system messages in the order in
\* which they were appended.
C7_SystemFirst ==
    \A sid \in DOMAIN sessions :
        LET msgs == sessions[sid]
        IN  /\ \A i \in 1..Len(msgs) : IsSystem(msgs[i]) => i = 1
            /\ IsSuffix(SelectSeq(msgs, NotSystem), SelectSeq(appended[sid], NotSystem))

\* a session that has been trimmed and still starts with its system message
C7_Witness ==
    \E sid \in DOMAIN sessions :
        /\ Len(sessions[sid]) < Len(appended[sid])
        /\ IsSystem(sessions[sid][1])
        /\ Len(sessions[sid]) > 1

\* the last n elements of a list, none when n = 0
LastN(seq, n) ==
    IF n >= Len(seq) THEN seq ELSE SubSeq(seq, Len(seq) - n + 1, Len(seq))

\* C8: after each append a live session holds every system message appended so
\* far plus exactly the most recent min(n, 2 * max_history) of the n non-system
\* messages appended so far, in their original order.
C8_KeepsMostRecent ==
    \A sid \in DOMAIN sessions :
        LET kept == SelectSeq(sessions[sid], NotSystem)
            all == SelectSeq(appended[sid], NotSystem)
        IN  /\ SelectSeq(sessions[sid], IsSystem) = SelectSeq(appended[sid], IsSystem)
            /\ kept = LastN(all, Min(Len(all), 2 * max_history))

\* the store call made by the step
Called(op) == lastCall'.op = op

\* C9: session_exists(id) is true exactly when the session is present and
\* now - last_active_at <= TTL; a present session found expired is removed,
\* messages and timestamp, and nothing else changes; get_history returns
\* nothing for a session that is not live and the stored messages of a live one.
C9_ExistsEvictsExpired ==
    [][ /\ Called("session_exists") =>
            LET sid == lastCall'.sid
            IN  /\ lastCall'.b = IsLive(sid)
                /\ ~IsLive(sid) =>
                      /\ sid \notin DOMAIN sessions'
                      /\ sid \notin DOMAIN session_timestamps'
                /\ \A other \in DOMAIN sessions \ {sid} :
                      /\ other \in DOMAIN sessions'
                      /\ sessions'[other] = sessions[other]
                      /\ session_timestamps'[other] = session_timestamps[other]
                /\ IsLive(sid) =>
                      /\ sessions' = sessions
                      /\ session_timestamps' = session_timestamps
        /\ Called("get_history") =>
            LET sid == lastCall'.sid
            IN  /\ ~IsLive(sid) => lastCall'.h = <<>> /\ sid \notin DOMAIN sessions'
                /\ IsLive(sid) =>
                      /\ Len(lastCall'.h) = Len(sessions[sid])
                      /\ \A i \in 1..Len(sessions[sid]) :
                            /\ lastCall'.h[i].role = sessions[sid][i].role
                            /\ lastCall'.h[i].content = sessions[sid][i].content ]_vars

\* session_exists has just answered false for a session that was created and
\* has messages no longer
C9_Witness ==
    /\ lastCall.op = "session_exists"
    /\ lastCall.sid \in 1..(nextId - 1)
    /\ ~lastCall.b
    /\ lastCall.sid \notin DOMAIN sessions
    /\ nappend > 0

\* C10: add_message on an absent or expired session stores nothing and leaves
\* no entry for that id; on a live session it appends the message at the end
\* and sets last_active_at to the current time, and the trimming runs on the list
\* that already holds the new message.
C10_AddMessage ==
    [][ Called("add_message") =>
            LET sid == lastCall'.sid
                message == lastCall'.h[1]
            IN  /\ lastCall'.b = IsLive(sid)
                /\ \A other \in DOMAIN sessions \ {sid} :
                      /\ other \in DOMAIN sessions'
                      /\ sessions'[other] = sessions[other]
                      /\ session_timestamps'[other] = session_timestamps[other]
                /\ DOMAIN sessions' \subseteq DOMAIN sessions
                /\ DOMAIN session_timestamps' = DOMAIN sessions'
                /\ ~IsLive(sid) =>
                      /\ sid \notin DOMAIN sessions'
                      /\ sid \notin DOMAIN session_timestamps'
                /\ IsLive(sid) =>
                      LET full == Append(sessions[sid], message)
                          new == sessions'[sid]
                      IN  /\ session_timestamps'[sid] = now
                          /\ message.timestamp = now
                          /\ Len(full) <= 2 * max_history => new = full
                          /\ SelectSeq(new, IsSystem) = SelectSeq(full, IsSystem)
                          /\ IsSuffix(SelectSeq(new, NotSystem), SelectSeq(full, NotSystem))
                          /\ \E i \in 1..Len(new) : new[i] = message
                          /\ NotSystem(message) => new[Len(new)] = message
                          /\ max_history >= 1 =>
                                Len(SelectSeq(new, NotSystem)) <= 2 * max_history ]_vars

\* add_message has just been refused on a session that had been created
C10_Witness ==
    /\ lastCall.op = "add_message"
    /\ lastCall.sid \in 1..(nextId - 1)
    /\ ~lastCall.b
    /\ lastCall.sid \notin DOMAIN sessions

\* add_message has just trimmed a live session
C10_WitnessTrim ==
    /\ lastCall.op = "add_message"
    /\ lastCall.b
    /\ lastCall.sid \in DOMAIN sessions
    /\ Len(sessions[lastCall.sid]) < Len(appended[lastCall.sid])

(***************************************************************************)
(* The sweep: sessions are created and touched at different times, and     *)
(* cleanup_expired_sessions runs at any moment (main.py runs it at         *)
(* shutdown).                                                              *)
(***************************************************************************)
SweepCreate ==
    /\ nextId <= MaxSweepIds
    /\ SetStore(create_session(Store, nextId, now))
    /\ nextId' = nextId + 1
    /\ lastCall' = Call("create_session", nextId, TRUE, <<>>)
    /\ UNCHANGED <<max_history, ttl, now, nappend, indexVars, connVars, ragVars, agentVars>>

SweepAdd ==
    /\ nappend < MaxSweepAppends
    /\ \E sid \in 1..(nextId - 1) :
          /\ SetStore(add_message(Store, sid, "user", ToString(nappend + 1), now))
          /\ lastCall' = Call("add_message", sid, is_session_valid(Store, sid, now),
                              <<Message("user", ToString(nappend + 1), now)>>)
    /\ nappend' = nappend + 1
    /\ UNCHANGED <<max_history, ttl, now, nextId, indexVars, connVars, ragVars, agentVars>>

NextSweep == Tick \/ SweepCreate \/ SweepAdd \/ MemSweep

SpecSweep == InitMem /\ [][NextSweep]_vars

\* C11: cleanup_expired_sessions removes every session idle for longer than the
\* TTL, messages and timestamp, and leaves the messages and the timestamp of
\* every other session as they were; when it returns no stored session is
\* expired at the time the sweep ran.
C11_SweepRemovesExpired ==
    [][ Called("cleanup_expired_sessions") =>
          /\ DOMAIN sessions' \subseteq DOMAIN sessions
          /\ DOMAIN session_timestamps' = DOMAIN sessions'
          /\ \A sid \in DOMAIN sessions :
                IF now - session_timestamps[sid] > ttl
                THEN /\ sid \notin DOMAIN sessions'
                     /\ sid \notin DOMAIN session_timestamps'
                ELSE /\ sid \in DOMAIN sessions'
                     /\ sessions'[sid] = sessions[sid]
                     /\ session_timestamps'[sid] = session_timestamps[sid]
          /\ \A sid \in DOMAIN sessions' : now - session_timestamps'[sid] <= ttl ]_vars

\* the sweep has just removed one session and kept another, which holds a
\* message and has been idle for exactly the TTL
C11_Witness ==
    /\ lastCall.op = "cleanup_expired_sessions"
    /\ \E gone \in 1..(nextId - 1), kept \in DOMAIN sessions :
          /\ gone \notin DOMAIN sessions
          /\ sessions[kept] # <<>>
          /\ now - session_timestamps[kept] = ttl

(***************************************************************************)
(* Appends in flight.  Requests reach the server at any time; the handler  *)
(* of routes.py calls process_query without awaiting anything, and         *)
(* add_message has no suspension point, so the event loop runs one         *)
(* requested append to its end before it starts the next, in any order.    *)
(***************************************************************************)
ConcCreate ==
    /\ nextId <= MaxIds
    /\ SetStore(create_session(Store, nextId, now))
    /\ nextId' = nextId + 1
    /\ lastCall' = Call("create_session", nextId, TRUE, <<>>)
    /\ UNCHANGED <<max_history, ttl, now, nappend, indexVars, agentVars, connVars, ragVars>>

\* a request that will append to session sid reaches the server
Arrive ==
    /\ nappend < MaxRequests
    /\ Cardinality(inflight) < 2
    /\ \E sid \in 1..(nextId - 1) :
          inflight' = inflight \cup {[sid |-> sid, content |-> ToString(nappend + 1)]}
    /\ nappend' = nappend + 1
    /\ UNCHANGED <<sessions, session_timestamps, appended, max_history, ttl, now,
                   nextId, lastCall, indexVars, agentVars, ran, ragVars>>

\* the event loop runs one of the requested appends, all of add_message
RunAppend ==
    /\ \E r \in inflight :
          /\ SetStore(add_message(Store, r.sid, "user", r.content, now))
          /\ lastCall' = Call("add_message", r.sid, is_session_valid(Store, r.sid, now),
                              <<Message("user", r.content, now)>>)
          /\ inflight' = inflight \ {r}
          /\ ran' = Append(ran, [sid |-> r.sid, content |-> r.content,
                                 live |-> IsLive(r.sid),
                                 others |-> Cardinality({o \in inflight \ {r} : o.sid = r.sid})])
    /\ UNCHANGED <<max_history, ttl, now, nextId, nappend, indexVars, agentVars, ragVars>>

NextConc == Tick \/ ConcCreate \/ Arrive \/ RunAppend

SpecConc == InitMem /\ [][NextConc]_vars

\* the contents appended to session sid by the calls run so far, in run order
RanOn(sid) ==
    LET mine == SelectSeq(ran, LAMBDA e : e.sid = sid /\ e.live)
    IN  [i \in 1..Len(mine) |-> mine[i].content]

Contents(msgs) == [i \in 1..Len(msgs) |-> msgs[i].content]

\* C12: whatever appends for one session are in flight together, the stored
\* history is the one of running them one after the other in the order in which
\* they ran: it holds the most recent of them last, holds all of them while
\* their number is within 2 * max_history, and holds nothing else.
C12_AppendsSerialized ==
    \A sid \in DOMAIN sessions :
        LET all == RanOn(sid)
            kept == Contents(sessions[sid])
        IN  /\ IsSuffix(kept, all)
            /\ all # <<>> => kept # <<>>
            /\ Len(all) <= 2 * max_history => kept = all

\* two appends for one session were in flight together, ran in the order
\* opposite to their arrival, and the session holds both
C12_Witness ==
    \E sid \in DOMAIN sessions :
        /\ Len(sessions[sid]) = 2
        /\ Len(ran) >= 2
        /\ \E i \in 1..(Len(ran) - 1) :
              /\ ran[i].sid = sid /\ ran[i + 1].sid = sid
              /\ ran[i].others = 1
              /\ ran[i].live /\ ran[i + 1].live
              /\ sessions[sid][1].content = ran[i].content
              /\ sessions[sid][2].content = ran[i + 1].content
              /\ sessions[sid][1].content = "2"
              /\ sessions[sid][2].content = "1"

(***************************************************************************)
(* The vector store on its own: add_documents, search, save, load, clear   *)
(* and initialize_vector_store called in any order, the process restarted, *)
(* and the artifacts on disk removed or damaged from outside.              *)
(***************************************************************************)
InitIdx ==
    /\ sessions = <<>>
    /\ session_timestamps = <<>>
    /\ appended = <<>>
    /\ max_history \in {1}
    /\ ttl \in TTLs
    /\ now = 0
    /\ nextId = 1
    /\ nappend = 0
    /\ lastCall = Call("init", None, FALSE, <<>>)
    /\ index = <<>>
    /\ documents = <<>>
    /\ is_initialized = FALSE
    /\ dimension = None
    /\ disk \in Disks
    /\ lastIdx = NoIdxCall
    /\ saved = <<>>
    /\ nadd = 0
    /\ pc = "idle"
    /\ req = NoReq
    /\ loc = NoLoc
    /\ nq = 0
    /\ inflight = {}
    /\ ran = <<>>
    /\ NoSplit
    /\ NoIngest

\* the document lists add_documents is called with
DocBatches ==
    { <<>>,
      <<Document("chunk a0", "a.txt", 0, 2), Document("chunk a1", "a.txt", 1, 2)>>,
      <<Document("chunk b0", "b.txt", 0, 1)>> }

\* the k a search is called with: None, or an integer
KArgs == {<<FALSE, None>>} \cup {<<TRUE, k>> : k \in 0..MaxK}

IdxAdd ==
    /\ nadd < MaxAdds
    /\ \E docs \in DocBatches, embed_ok \in BOOLEAN :
          /\ docs = <<>> => embed_ok
          /\ IF embed_ok THEN SetVStore(add_documents(VStore, docs))
             ELSE UNCHANGED <<index, documents, is_initialized, dimension>>
          /\ lastIdx' = IdxCall("add_documents",
                                ~embed_ok \/ add_documents_raises(VStore, docs),
                                FALSE, "", FALSE, None, <<>>, docs)
    /\ nadd' = nadd + 1
    /\ UNCHANGED <<memVars, agentVars, connVars, ragVars, disk, saved>>

IdxSearch ==
    /\ \E query \in {"q1", "q2"}, arg \in KArgs :
          LET raised == search_raises(VStore, query)
          IN  lastIdx' = IdxCall("search", raised, search_embeds(VStore), query,
                                 arg[1], arg[2],
                                 IF raised THEN <<>> ELSE search(VStore, query, arg[2]),
                                 <<>>)
    /\ UNCHANGED <<memVars, agentVars, connVars, ragVars, index, documents, is_initialized,
                   dimension, disk, saved, nadd>>

IdxSave ==
    /\ \E outcome \in SaveOutcomes :
          /\ ~is_initialized => outcome = "ok"
          /\ disk' = save(VStore, disk, outcome)
          /\ saved' = IF is_initialized /\ outcome = "ok"
                       THEN <<[vs |-> VStore, disk |-> disk']>>
                       ELSE IF disk' = disk THEN saved ELSE <<>>
          /\ lastIdx' = IdxCall("save", save_raises(VStore, outcome), FALSE, "", FALSE,
                                None, <<>>, <<>>)
    /\ UNCHANGED <<memVars, agentVars, connVars, ragVars, index, documents, is_initialized,
                   dimension, nadd>>

IdxLoad ==
    /\ SetVStore(load(VStore, disk))
    /\ lastIdx' = IdxCall("load", FALSE, load_returns(disk), "", FALSE, None, <<>>, <<>>)
    /\ UNCHANGED <<memVars, agentVars, connVars, ragVars, disk, saved, nadd>>

IdxClear ==
    /\ SetVStore(clear(VStore))
    /\ lastIdx' = IdxCall("clear", FALSE, FALSE, "", FALSE, None, <<>>, <<>>)
    /\ UNCHANGED <<memVars, agentVars, connVars, ragVars, disk, saved, nadd>>

\* the process starts again: a new VectorStore, the artifacts as they were
IdxRestart ==
    /\ SetVStore(NewVStore)
    /\ lastIdx' = IdxCall("restart", FALSE, FALSE, "", FALSE, None, <<>>, <<>>)
    /\ UNCHANGED <<memVars, agentVars, connVars, ragVars, disk, saved, nadd>>

\* the startup of main.py on the new VectorStore
IdxInitialize ==
    /\ nadd < MaxAdds
    /\ VStore = NewVStore
    /\ \E docs \in Corpora, outcome \in InitOutcomes :
          LET r == initialize_vector_store(VStore, disk, docs, outcome)
          IN  /\ (load_returns(disk) \/ docs = <<>>) => outcome = "ok"
              /\ SetVStore(r.vs)
              /\ disk' = r.disk
              /\ saved' = IF r.vs.is_initialized /\ ~load_returns(disk) /\ docs # <<>>
                              /\ outcome = "ok" /\ ~r.raised
                           THEN <<[vs |-> r.vs, disk |-> r.disk]>>
                           ELSE IF r.disk = disk THEN saved ELSE <<>>
              /\ lastIdx' = IdxCall("initialize_vector_store", r.raised,
                                    load_returns(disk), "", FALSE, None, <<>>, docs)
    /\ nadd' = nadd + 1
    /\ UNCHANGED <<memVars, agentVars, connVars, ragVars>>

\* an artifact is removed or damaged from outside the process
Damage ==
    /\ \E f \in {"index_file", "docs_file"}, to \in {Missing, Corrupt} :
          /\ disk[f].state = "ok"
          /\ disk' = [disk EXCEPT ![f] = to]
    /\ lastIdx' = IdxCall("damage", FALSE, FALSE, "", FALSE, None, <<>>, <<>>)
    /\ saved' = <<>>
    /\ UNCHANGED <<memVars, agentVars, connVars, ragVars, index, documents, is_initialized,
                   dimension, nadd>>

NextIdx ==
    \/ IdxAdd \/ IdxSearch \/ IdxSave \/ IdxLoad \/ IdxClear \/ IdxRestart
    \/ IdxInitialize \/ Damage

SpecIdx == InitIdx /\ [][NextIdx]_vars

\* the number of vectors the index holds
ntotal == IF index = <<>> THEN 0 ELSE Len(index[1].xb)

\* the vector store call made by the step
IdxCalled(op) == lastIdx'.op = op

\* C13: in every state reachable by add_documents, load, save and clear calls,
\* also calls that fail partway, the number of stored documents equals the
\* number of vectors the index holds.
C13_CountsAgree == Len(documents) = ntotal

\* C14: an add_documents call on an index whose dimension differs from the
\* length of the vectors to add raises and leaves the index, the documents and
\* the dimension as they were.
C14_MismatchRejected ==
    [][ (IdxCalled("add_documents") /\ lastIdx'.docs # <<>> /\ index # <<>>
           /\ index[1].d # embedding_dimension) =>
          /\ lastIdx'.raised
          /\ index' = index
          /\ documents' = documents
          /\ dimension' = dimension
          /\ is_initialized' = is_initialized ]_vars

\* add_documents has just raised on a populated index of another dimension
C14_Witness ==
    /\ lastIdx.op = "add_documents"
    /\ lastIdx.raised
    /\ lastIdx.docs # <<>>
    /\ index # <<>>
    /\ index[1].d = 2
    /\ embedding_dimension = 1
    /\ Len(documents) = 1
    /\ ntotal = 1

\* C15: for every non-negative integer k the caller passes and every state of
\* the index, search returns exactly min(k, stored count) results.
C15_ReturnsMinK ==
    [][ (IdxCalled("search") /\ lastIdx'.given /\ ~lastIdx'.raised) =>
          Len(lastIdx'.results) = Min(lastIdx'.k, Len(documents)) ]_vars

\* C16: every result of a search on a populated index is a pair of the chunk
\* stored at a row of the index and the squared L2 distance of that row to the
\* query; the results are in non-decreasing order of distance; and no row left
\* out of the results is strictly closer than a returned one.
C16_NearestInOrder ==
    [][ (IdxCalled("search") /\ ~lastIdx'.raised) =>
          LET res == lastIdx'.results
              q == generate_embedding(lastIdx'.query)
              rowdist(row) == L2(index[1].xb[row], q)
          IN  /\ \A i \in 1..Len(res) :
                    \E row \in 1..ntotal :
                        /\ row <= Len(documents)
                        /\ documents[row] = res[i][1]
                        /\ rowdist(row) = res[i][2]
              /\ \A i \in 1..Len(res), j \in 1..Len(res) :
                    i < j => res[i][2] <= res[j][2]
              /\ \A i \in 1..Len(res) :
                    Cardinality({row \in 1..ntotal : rowdist(row) < res[i][2]}) <= i - 1 ]_vars

\* the tool results of the working history
ToolResults == SelectSeq(loc.messages, LAMBDA m : m.role = "tool")

\* C17: a search on a store that holds no entry, never filled or cleared,
\* returns an empty result and does not reach the embedder; a query that makes
\* such searches gets "No relevant documents found." for each of them, is not
\* failed by them, and when it returns it returns the content of the second
\* completion, with no sources.
C17_EmptyIndexSearch ==
    /\ \A q \in {"q1", "q2"}, k \in 0..top_k_results :
          /\ ~search_embeds(clear(VStore))
          /\ search(clear(VStore), q, k) = <<>>
          /\ documents = <<>> => (~search_embeds(VStore) /\ search(VStore, q, k) = <<>>)
    /\ (documents = <<>> /\ pc \notin {"boot", "idle"}) =>
          /\ loc.nembed = 0
          /\ \A i \in 1..Len(loc.retrieved) : loc.retrieved[i] = <<>>
          /\ \A i \in 1..Len(ToolResults) :
                ToolResults[i].content = "No relevant documents found."
          /\ pc = "failed" =>
                \/ Len(loc.calls) = 2
                \/ loc.response = <<>>
                \/ ~ToolCalls[loc.i].json_ok
          /\ (pc = "done" /\ loc.retrieved # <<>>) =>
                /\ result.answer = Answer(nq, 2)
                /\ result.sources = {}

\* a query that searched the empty store twice has returned an answer
C17_Witness ==
    /\ pc = "done"
    /\ documents = <<>>
    /\ index = <<>>
    /\ Len(loc.retrieved) = 2
    /\ Len(ToolResults) = 2
    /\ result.answer = Answer(nq, 2)

\* the queries and the k values a search is compared on
SearchInputs == {"q1", "q2"} \X (0..(MaxK + 1))

\* C18: a load that finds the artifacts a complete save of a populated store
\* wrote returns true and leaves the vectors and the documents of the saved
\* store, in the same order, so that every search returns on the loaded store
\* what it returned on the saved one.
C18_SaveLoadRoundTrip ==
    [][ (IdxCalled("load") /\ saved # <<>> /\ disk = saved[1].disk) =>
          /\ lastIdx'.ret
          /\ index' = saved[1].vs.index
          /\ documents' = saved[1].vs.documents
          /\ is_initialized'
          /\ \A inp \in SearchInputs :
                /\ search_raises(VStore', inp[1]) = search_raises(saved[1].vs, inp[1])
                /\ ~search_raises(VStore', inp[1]) =>
                      search(VStore', inp[1], inp[2]) = search(saved[1].vs, inp[1], inp[2]) ]_vars

\* a new VectorStore has just loaded what a store of two documents saved
C18_Witness ==
    /\ lastIdx.op = "load"
    /\ lastIdx.ret
    /\ saved # <<>>
    /\ disk = saved[1].disk
    /\ dimension = None
    /\ saved[1].vs.dimension = 1
    /\ Len(documents) = 2
    /\ search(VStore, "q2", 1) # <<>>

\* one of the two artifacts, or both, is not at the path
ArtifactMissing == ~exists(disk.index_file) \/ ~exists(disk.docs_file)

\* C19: when an artifact is missing, load returns false without raising and
\* leaves the store as it was, and initialize_vector_store ingests the documents
\* of the directory (and saves them); when load returns true,
\* initialize_vector_store leaves what load read and ingests nothing.
C19_LoadOrIngest ==
    [][ /\ (IdxCalled("load") /\ ArtifactMissing) =>
              /\ ~lastIdx'.ret
              /\ ~lastIdx'.raised
              /\ <<index', documents', is_initialized', dimension'>>
                    = <<index, documents, is_initialized, dimension>>
        /\ (IdxCalled("initialize_vector_store") /\ ArtifactMissing) =>
              /\ ~lastIdx'.ret
              /\ ~lastIdx'.raised =>
                    /\ documents' = lastIdx'.docs
                    /\ ntotal' = Len(lastIdx'.docs)
                    /\ \A i \in 1..Len(lastIdx'.docs) :
                          index'[1].xb[i] = generate_embedding(lastIdx'.docs[i].content)
                    /\ lastIdx'.docs # <<>> =>
                          /\ disk'.index_file = File(index'[1])
                          /\ disk'.docs_file = File(documents')
        /\ (IdxCalled("initialize_vector_store") /\ lastIdx'.ret) =>
              /\ ~lastIdx'.raised
              /\ index' = disk.index_file.data
              /\ documents' = disk.docs_file.data[1]
              /\ disk' = disk ]_vars

\* initialize_vector_store has just found the artifacts of an earlier run and
\* left the directory's documents out
C19_Witness ==
    /\ lastIdx.op = "initialize_vector_store"
    /\ lastIdx.ret
    /\ Len(lastIdx.docs) = 3
    /\ Len(documents) = 1
    /\ ntotal = 1

\* initialize_vector_store has just ingested and saved the directory because an
\* artifact was missing
C19_WitnessIngest ==
    /\ lastIdx.op = "initialize_vector_store"
    /\ ~lastIdx.ret
    /\ ~lastIdx.raised
    /\ Len(documents) = 3
    /\ ntotal = 3
    /\ disk.docs_file = File(documents)
    /\ saved # <<>>

\* C20: after clear the store holds no entry and its dimension is unset, and
\* every search returns an empty result.
C20_ClearResets ==
    [][ IdxCalled("clear") =>
          /\ documents' = <<>>
          /\ ntotal' = 0
          /\ dimension' = None
          /\ \A inp \in SearchInputs : search(VStore', inp[1], inp[2]) = <<>> ]_vars

(***************************************************************************)
(* Vector store calls in flight.  Nothing in the repository starts a       *)
(* thread or awaits inside a VectorStore method: add_documents, load and   *)
(* clear run in the startup before requests are served, and the handler    *)
(* of routes.py runs process_query, with its searches, to the end.  Calls  *)
(* requested together therefore run one after the other, in any order.     *)
(* The artifacts on disk may be removed or damaged from outside.           *)
(***************************************************************************)
MaxIdxRequests == 3

\* the calls that may be requested
IdxRequests ==
    { [op |-> "search", query |-> "q1", k_given |-> a[1], k |-> a[2], docs |-> <<>>] :
          a \in KArgs }
    \cup { [op |-> "add_documents", query |-> "", k_given |-> FALSE, k |-> None,
             docs |-> d] : d \in DocBatches \ {<<>>} }
    \cup { [op |-> o, query |-> "", k_given |-> FALSE, k |-> None, docs |-> <<>>] :
             o \in {"load", "clear"} }

IsMutation(r) == r.op \in {"add_documents", "load", "clear"}

\* a call is requested while at most one other is in flight
IdxArrive ==
    /\ nadd < MaxIdxRequests
    /\ Cardinality(inflight) < 2
    /\ \E r \in IdxRequests :
          inflight' = inflight \cup {[id |-> nadd + 1, call |-> r]}
    /\ nadd' = nadd + 1
    /\ UNCHANGED <<memVars, agentVars, ragVars, index, documents, is_initialized,
                   dimension, disk, lastIdx, saved, ran>>

\* one of the requested calls runs, all of it
RunIdx ==
    /\ \E r \in inflight :
          LET c == r.call
              raised == CASE c.op = "search" -> search_raises(VStore, c.query)
                          [] c.op = "add_documents" -> add_documents_raises(VStore, c.docs)
                          [] OTHER -> FALSE
              results == IF c.op = "search" /\ ~raised
                         THEN search(VStore, c.query, c.k) ELSE <<>>
          IN  /\ \/ /\ c.op = "search"
                    /\ UNCHANGED <<index, documents, is_initialized, dimension>>
                 \/ /\ c.op = "add_documents"
                    /\ SetVStore(add_documents(VStore, c.docs))
                 \/ /\ c.op = "load"
                    /\ SetVStore(load(VStore, disk))
                 \/ /\ c.op = "clear"
                    /\ SetVStore(clear(VStore))
              /\ lastIdx' = IdxCall(c.op, raised,
                                    IF c.op = "load" THEN load_returns(disk)
                                    ELSE c.op = "search" /\ search_embeds(VStore),
                                    c.query, c.k_given, c.k, results, c.docs)
              /\ inflight' = inflight \ {r}
              /\ ran' = Append(ran, [op |-> c.op, raised |-> raised,
                                     k_given |-> c.k_given, k |-> c.k,
                                     results |-> results,
                                     stored |-> Len(documents),
                                     vectors |-> IF index = <<>> THEN 0
                                                 ELSE Len(index[1].xb),
                                     mutating |-> \E o \in inflight \ {r} :
                                                     IsMutation(o.call)])
    /\ UNCHANGED <<memVars, agentVars, ragVars, disk, saved, nadd>>

NextIdxConc == IdxArrive \/ RunIdx \/ Damage

SpecIdxConc == InitIdx /\ [][NextIdxConc]_vars

\* the searches run so far while an add_documents, load or clear was in flight
ConcurrentSearches ==
    {i \in DOMAIN ran : ran[i].op = "search" /\ ran[i].mutating /\ ~ran[i].raised}

\* C21: a search that runs while an add_documents, load or clear is in flight
\* sees the store before or after that call, with as many vectors as
\* documents, and returns min(k, number of stored documents) results, k being
\* top_k_results when none is given.
C21_SearchSeesWholeMutations ==
    \A i \in ConcurrentSearches :
        /\ ran[i].vectors = ran[i].stored
        /\ Len(ran[i].results)
             = Min(IF ran[i].k_given THEN ran[i].k ELSE top_k_results, ran[i].stored)

(***************************************************************************)
(* retriever.py: _split_text.  A text is the list of its characters;       *)
(* positions are Python's, counted from 0.                                 *)
(***************************************************************************)
MaxTextLen == 4
MaxChunkSize == 3
MaxChunks == 8
MaxBack == 6

Whitespace == {" ", "\n"}

Alphabet == {"a", ".", " ", "\n"}

\* Python: a slice bound i on a sequence of length n
PyBound(i, n) ==
    IF i < 0 THEN (IF i + n < 0 THEN 0 ELSE i + n)
    ELSE IF i > n THEN n ELSE i

\* Python: t[s:e]
PySlice(t, s, e) ==
    LET a == PyBound(s, Len(t))
        b == PyBound(e, Len(t))
    IN  IF a >= b THEN <<>> ELSE SubSeq(t, a + 1, b)

\* Python: t.rfind(sub, s, e), for a sub that is not empty
rfind(t, sub, s, e) ==
    LET a == PyBound(s, Len(t))
        b == PyBound(e, Len(t))
        found == {i \in a..(b - Len(sub)) : SubSeq(t, i + 1, i + Len(sub)) = sub}
    IN  IF found = {} THEN -1 ELSE CHOOSE i \in found : \A j \in found : j <= i

\* Python: t.strip()
strip(t) ==
    LET inked == {i \in 1..Len(t) : t[i] \notin Whitespace}
    IN  IF inked = {} THEN <<>>
        ELSE SubSeq(t, CHOOSE i \in inked : \A j \in inked : i <= j,
                       CHOOSE i \in inked : \A j \in inked : j <= i)

\* lines 85-106: the end of the chunk that starts at s
split_end(t, s, size) ==
    LET proposed == s + size
        last_newline == rfind(t, <<"\n", "\n">>, s, proposed)
        last_period == rfind(t, <<".", " ">>, s, proposed)
        last_space == rfind(t, <<" ">>, s, proposed)
    IN  IF proposed < Len(t)
        THEN IF last_newline # -1 /\ last_newline > s THEN last_newline + 2
             ELSE IF last_period # -1 /\ last_period > s THEN last_period + 2
             ELSE IF last_space # -1 /\ last_space > s THEN last_space + 1
             ELSE proposed
        ELSE proposed

\* line 109: the start of the next chunk
next_start(t, e, overlap) == IF e < Len(t) THEN e - overlap ELSE Len(t)

\* the lists chunks and cuts hold what the first MaxChunks iterations put there
Recorded(seq, x) == IF Len(seq) < MaxChunks THEN Append(seq, x) ELSE seq

\* line 84: while start < text_length
SplitTest ==
    /\ spc = "test"
    /\ spc' = IF start < Len(text) THEN "body" ELSE "returned"
    /\ UNCHANGED <<memVars, indexVars, agentVars, connVars, ingestVars,
                   text, chunk_size, chunk_overlap, start, end, chunks, cuts>>

\* lines 85-109: one iteration
SplitBody ==
    /\ spc = "body"
    /\ start >= -MaxBack
    /\ LET e == split_end(text, start, chunk_size)
           chunk == strip(PySlice(text, start, e))
       IN  /\ end' = e
           /\ chunks' = IF chunk # <<>> THEN Recorded(chunks, chunk) ELSE chunks
           /\ cuts' = Recorded(cuts, [start |-> start, end |-> e])
           /\ start' = next_start(text, e, chunk_overlap)
    /\ spc' = "test"
    /\ UNCHANGED <<memVars, indexVars, agentVars, connVars, ingestVars,
                   text, chunk_size, chunk_overlap>>

\* the texts of at most n characters
RECURSIVE TextsUpTo(_)
TextsUpTo(n) ==
    IF n = 0 THEN {<<>>}
    ELSE LET shorter == TextsUpTo(n - 1)
         IN  shorter \cup {Append(t, c) : t \in {u \in shorter : Len(u) = n - 1},
                                          c \in Alphabet}

\* a word, a space, and a word as long as LongConfig's chunk_size
WordThenLongWord == <<"a", " ">> \o [i \in 1..(2 * MaxChunkSize + 1) |-> "a"]

\* the configurations, chunk_size and chunk_overlap, valid or not
Configs == (1..MaxChunkSize) \X (0..MaxChunkSize)

\* a valid configuration whose chunk_size is more than twice its chunk_overlap
LongConfig == <<2 * MaxChunkSize + 1, MaxChunkSize>>

\* the calls of _split_text: a text and a configuration
SplitInputs ==
    (TextsUpTo(MaxTextLen) \X Configs) \cup {<<WordThenLongWord, LongConfig>>}

ValidConfig == chunk_size >= 1 /\ 0 <= chunk_overlap /\ chunk_overlap < chunk_size

\* lines 80-82: _split_text is called with a text
InitSplit ==
    /\ sessions = <<>>
    /\ session_timestamps = <<>>
    /\ appended = <<>>
    /\ max_history \in {1}
    /\ ttl \in TTLs
    /\ now = 0
    /\ nextId = 1
    /\ nappend = 0
    /\ lastCall = Call("init", None, FALSE, <<>>)
    /\ index = <<>>
    /\ documents = <<>>
    /\ is_initialized = FALSE
    /\ dimension = None
    /\ disk = NoArtifacts
    /\ lastIdx = NoIdxCall
    /\ saved = <<>>
    /\ nadd = 0
    /\ pc = "idle"
    /\ req = NoReq
    /\ loc = NoLoc
    /\ nq = 0
    /\ inflight = {}
    /\ ran = <<>>
    /\ NoIngest
    /\ \E inp \in SplitInputs :
          /\ text = inp[1]
          /\ chunk_size = inp[2][1]
          /\ chunk_overlap = inp[2][2]
    /\ start = 0
    /\ end = 0
    /\ chunks = <<>>
    /\ cuts = <<>>
    /\ spc = "test"

NextSplit == SplitTest \/ SplitBody

SpecSplit == InitSplit /\ [][NextSplit]_vars

\* the loop is not abandoned: the interpreter runs the next step
SpecSplitFair == SpecSplit /\ WF_vars(NextSplit)

\* every iteration of a run that returns is recorded in cuts, and a valid
\* configuration never takes start below the bound of the model
SplitRecorded ==
    /\ spc = "returned" => Len(cuts) < MaxChunks
    /\ ValidConfig => start >= -MaxBack

\* C22: for every text and every configuration with chunk_size >= 1 and
\* 0 <= chunk_overlap < chunk_size, _split_text returns.
C22_SplitTerminates == ValidConfig => <>(spc = "returned")

\* C23: every iteration of the loop of _split_text leaves start greater than
\* it found it, whatever the text and the configuration, chunk_overlap >=
\* chunk_size included.
C23_StartIncreases == [][SplitBody => start' > start]_vars

\* the returned chunk of cut c holds the character at position p
InChunkOf(c, p) ==
    /\ PyBound(c.start, Len(text)) <= p
    /\ p < PyBound(c.end, Len(text))

\* every iteration so far left start greater than it found it
StartsIncreased ==
    /\ \A i \in 1..(Len(cuts) - 1) : cuts[i].start < cuts[i + 1].start
    /\ cuts # <<>> => cuts[Len(cuts)].start < start

\* C24: when _split_text returns under a valid configuration, the ranges
\* [start, end) of its iterations begin at 0, leave no gap between one and the
\* next and reach the end of the text, and every character of the text that is
\* not whitespace lies in a returned chunk.
C24_CutsCoverText ==
    (spc = "returned" /\ ValidConfig) =>
        /\ cuts # <<>> => cuts[1].start = 0
        /\ \A i \in 1..(Len(cuts) - 1) : cuts[i + 1].start <= cuts[i].end
        /\ cuts # <<>> => cuts[Len(cuts)].end >= Len(text)
        /\ cuts = <<>> => text = <<>>
        /\ \A p \in 0..(Len(text) - 1) :
              text[p + 1] \notin Whitespace => \E i \in DOMAIN cuts : InChunkOf(cuts[i], p)

\* the positions after s at which sub lies wholly before position e
After(sub, s, e) ==
    {i \in 0..(Len(text) - Len(sub)) :
        /\ i > s
        /\ i + Len(sub) <= e
        /\ SubSeq(text, i + 1, i + Len(sub)) = sub}

Last(S) == CHOOSE i \in S : \A j \in S : j <= i

\* the end the iteration at start is to choose
SnappedEnd ==
    LET proposed == start + chunk_size
        breaks == After(<<"\n", "\n">>, start, proposed)
        periods == After(<<".", " ">>, start, proposed)
        spaces == After(<<" ">>, start, proposed)
    IN  IF proposed >= Len(text) THEN proposed
        ELSE IF breaks # {} THEN Last(breaks) + 2
        ELSE IF periods # {} THEN Last(periods) + 2
        ELSE IF spaces # {} THEN Last(spaces) + 1
        ELSE proposed

\* C30: an iteration whose proposed end start + chunk_size is inside the text
\* ends just after the last double line-break between start and the proposed
\* end, else just after the last period and space there, else just after the
\* last space there, else at the proposed end; an iteration whose proposed end
\* is at or beyond the end of the text ends at the proposed end.
C30_SnapPriority == [][SplitBody => end' = SnappedEnd]_vars

(***************************************************************************)
(* retriever.py: load_documents_from_directory.  The directory is the      *)
(* list os.listdir returns; a directory that does not exist yields the     *)
(* same empty result as one without files.  A file that cannot be opened   *)
(* or decoded raises inside the try of lines 44-63.                        *)
(***************************************************************************)
MaxFiles == 3

FileTexts == {<<>>, <<"a", "a", " ", "a">>, <<"a", " ", "a", "a">>}

\* a directory entry: its name, whether the name ends in .txt, whether
\* reading it succeeds, and what it holds
DirEntry(name, txt, readable, content) ==
    [name |-> name, txt |-> txt, readable |-> readable, content |-> content]

\* the entries a name may stand for
EntriesOf(name) ==
    IF name = "notes.md" THEN {DirEntry(name, FALSE, TRUE, <<"a">>)}
    ELSE {DirEntry(name, TRUE, TRUE, c) : c \in FileTexts}
         \cup {DirEntry(name, TRUE, FALSE, <<>>)}

FileNames == {"a.txt", "b.txt", "c.txt", "notes.md"}

\* the directories: any files of different names, in any order
Listings ==
    UNION { { l \in [1..n -> UNION {EntriesOf(nm) : nm \in FileNames}] :
                \A i, j \in 1..n : i # j => l[i].name # l[j].name } : n \in 0..MaxFiles }

\* the valid configurations the retriever is built with
IngestConfigs == {<<2, 0>>, <<3, 1>>, <<3, 2>>}

\* total_chunks taken from the position of the chunk, not from len(chunks)
documents_of_running_total(filename, cs) ==
    [i \in 1..Len(cs) |-> Document(cs[i], filename, i - 1, i)]

\* lines 52-61: the Documents of the chunks of one file
documents_of(filename, cs) ==
    [i \in 1..Len(cs) |-> Document(cs[i], filename, i - 1, Len(cs))]

\* the error ends the loop and the documents loaded so far are dropped
after_error_aborting(docs, i, n) == [documents |-> <<>>, next |-> n + 1]

\* lines 64-65: after a file failed, the documents kept and the next file
after_error(docs, i, n) == [documents |-> docs, next |-> i + 1]

\* lines 34-41: load_documents_from_directory is called
InitIngest ==
    /\ sessions = <<>>
    /\ session_timestamps = <<>>
    /\ appended = <<>>
    /\ max_history \in {1}
    /\ ttl \in TTLs
    /\ now = 0
    /\ nextId = 1
    /\ nappend = 0
    /\ lastCall = Call("init", None, FALSE, <<>>)
    /\ index = <<>>
    /\ documents = <<>>
    /\ is_initialized = FALSE
    /\ dimension = None
    /\ disk = NoArtifacts
    /\ lastIdx = NoIdxCall
    /\ saved = <<>>
    /\ nadd = 0
    /\ pc = "idle"
    /\ req = NoReq
    /\ loc = NoLoc
    /\ nq = 0
    /\ inflight = {}
    /\ ran = <<>>
    /\ text = <<>>
    /\ \E c \in IngestConfigs : chunk_size = c[1] /\ chunk_overlap = c[2]
    /\ start = 0
    /\ end = 0
    /\ chunks = <<>>
    /\ cuts = <<>>
    /\ spc = "idle"
    /\ files \in Listings
    /\ fi = 1
    /\ loaded = <<>>
    /\ produced = <<>>

AtFile == spc = "idle" /\ fi >= 1 /\ fi <= Len(files)

\* line 42: a name that does not end in .txt
IngestSkip ==
    /\ AtFile
    /\ ~files[fi].txt
    /\ fi' = fi + 1
    /\ UNCHANGED <<memVars, indexVars, agentVars, connVars, splitVars,
                   files, loaded, produced>>

\* lines 45-46, 64-65: reading the file raises
IngestFail ==
    /\ AtFile
    /\ files[fi].txt
    /\ ~files[fi].readable
    /\ LET r == after_error(loaded, fi, Len(files))
       IN  /\ loaded' = r.documents
           /\ fi' = r.next
    /\ UNCHANGED <<memVars, indexVars, agentVars, connVars, splitVars, files, produced>>

\* lines 45-49: the file is read and _split_text is called with its content
IngestRead ==
    /\ AtFile
    /\ files[fi].txt
    /\ files[fi].readable
    /\ text' = files[fi].content
    /\ start' = 0
    /\ end' = 0
    /\ chunks' = <<>>
    /\ cuts' = <<>>
    /\ spc' = "test"
    /\ UNCHANGED <<memVars, indexVars, agentVars, connVars, ingestVars,
                   chunk_size, chunk_overlap>>

\* lines 52-63: _split_text has returned
IngestCollect ==
    /\ fi >= 1
    /\ spc = "returned"
    /\ loaded' = loaded \o documents_of(files[fi].name, chunks)
    /\ produced' = Append(produced, [source |-> files[fi].name, chunks |-> chunks])
    /\ fi' = fi + 1
    /\ spc' = "idle"
    /\ UNCHANGED <<memVars, indexVars, agentVars, connVars, files,
                   text, chunk_size, chunk_overlap, start, end, chunks, cuts>>

NextIngest ==
    \/ IngestSkip \/ IngestFail \/ IngestRead \/ SplitTest \/ SplitBody \/ IngestCollect

SpecIngest == InitIngest /\ [][NextIngest]_vars

\* the Documents loaded so far for a file
DocsOf(name) == SelectSeq(loaded, LAMBDA d : d.metadata.source = name)

\* line 68: load_documents_from_directory has returned
Ingested == fi = Len(files) + 1 /\ spc = "idle"

\* C25: the Documents loaded for a file are one per chunk _split_text returned
\* for it, in chunk order, with chunk_id 0..n-1 and total_chunks = n, n being
\* the number of chunks returned; a file without chunks has no Documents, and
\* no Document comes from anything but a file that was split.
C25_ChunkIdsAndTotals ==
    /\ \A j \in DOMAIN produced :
          LET docs == DocsOf(produced[j].source)
              n == Len(produced[j].chunks)
          IN  /\ Len(docs) = n
              /\ \A i \in 1..n :
                    /\ docs[i].content = produced[j].chunks[i]
                    /\ docs[i].metadata.chunk_id = i - 1
                    /\ docs[i].metadata.total_chunks = n
    /\ \A i \in DOMAIN loaded :
          \E j \in DOMAIN produced : produced[j].source = loaded[i].metadata.source

\* a file of two chunks and a file with an empty text have been ingested
C25_Witness ==
    /\ Ingested
    /\ \E j \in DOMAIN produced : Len(produced[j].chunks) >= 2
    /\ \E j \in DOMAIN produced : produced[j].chunks = <<>>
    /\ Len(loaded) >= 2

\* the chunks _split_text returned for a file, if it was called for it
Returned(name) == {j \in DOMAIN produced : produced[j].source = name}

\* C29: a file that cannot be read contributes no Documents and does not end
\* the run: once load_documents_from_directory has returned, every .txt file
\* that can be read has been split and its chunks are loaded, those of files
\* before the unreadable one as well as after it, in directory order.
C29_UnreadableSkipped ==
    /\ \A i \in DOMAIN files :
          (files[i].txt /\ ~files[i].readable) => DocsOf(files[i].name) = <<>>
    /\ Ingested =>
          /\ \A i \in DOMAIN files :
                (files[i].txt /\ files[i].readable) =>
                    /\ Returned(files[i].name) # {}
                    /\ \A j \in Returned(files[i].name) :
                          Len(DocsOf(files[i].name)) = Len(produced[j].chunks)
          /\ \A a, b \in DOMAIN loaded :
                a < b => \E i, j \in DOMAIN files :
                            /\ i <= j
                            /\ files[i].name = loaded[a].metadata.source
                            /\ files[j].name = loaded[b].metadata.source

\* a run has returned from a directory that holds an unreadable file between
\* two files with chunks, and the chunks of both are loaded
C29_Witness ==
    /\ Ingested
    /\ Len(files) = 3
    /\ files[2].txt /\ ~files[2].readable
    /\ DocsOf(files[1].name) # <<>>
    /\ DocsOf(files[3].name) # <<>>

(***************************************************************************)
(* routes.py and models.py: what the caller of /ask receives.  The body is *)
(* validated against QueryRequest before ask_question runs; the detail of  *)
(* an error response is the list of the parts its text is made of.         *)
(***************************************************************************)
min_length == 1

max_length == 2000

\* a text of n characters
RECURSIVE Pad(_)
Pad(n) ==
    IF n = 0 THEN ""
    ELSE IF n % 2 = 0 THEN LET half == Pad(n \div 2) IN half \o half
    ELSE "x" \o Pad(n - 1)

\* the length limit is not applied
validates_min_length_only(query) == Len(query) >= min_length

\* models.py line 12: the constraints of QueryRequest.query
validates(query) == Len(query) >= min_length /\ Len(query) <= max_length

\* the queries the n-th request may carry: none, an ordinary one, the longest
\* allowed, one character more
AskQueries(n) == {"", Query(n), Pad(max_length), Pad(max_length + 1)}

\* the response to the request being handled
ask_question ==
    CASE pc = "done" ->
            [status_code |-> 200, answer |-> result.answer, detail |-> <<>>]
      [] pc = "failed" ->
            [status_code |-> 500, answer |-> "",
             detail |-> <<"An error occurred while processing your request: ", loc.error>>]
      [] pc = "rejected" ->
            [status_code |-> 422, answer |-> "", detail |-> <<"query", "string length">>]
      [] OTHER ->
            [status_code |-> 0, answer |-> "", detail |-> <<>>]

\* a request with a body QueryRequest accepts: ask_question runs process_query
Ask ==
    \E query \in AskQueries(nq + 1) :
        /\ validates(query)
        /\ StartWith(query)

\* a request with a body QueryRequest does not accept: ask_question does not run
Reject ==
    /\ pc = "idle"
    /\ nq < MaxQueries
    /\ \E query \in AskQueries(nq + 1), session_id \in {None} \cup (1..(nextId - 1)) :
          /\ ~validates(query)
          /\ req' = [query |-> query, session_id |-> session_id]
    /\ pc' = "rejected"
    /\ nq' = nq + 1
    /\ UNCHANGED <<memVars, indexVars, connVars, ragVars, loc>>

NextApi ==
    \/ Lifespan \/ Wait \/ Ask \/ Reject \/ CompleteFirst \/ ToolCall \/ CompleteSecond
    \/ Finish

SpecApi == Init /\ [][NextApi]_vars

\* process_query is running or has ended for the request being handled
InQuery == pc \in {"await_model", "tools", "await_final", "done", "failed"}

\* the calls to a completion or embedding service that failed during the query
FailedCalls == {i \in DOMAIN loc.external : ~loc.external[i].ok}

\* C26: during a query, a completion or embedding call that fails is the last
\* call made to a completion or embedding service for that query (it is not
\* made again and no other follows), process_query raises, and the caller of
\* /ask receives an error response and no answer.
C26_FailedCallAborts ==
    InQuery =>
        /\ \A i \in FailedCalls : i = Len(loc.external)
        /\ FailedCalls # {} =>
              /\ pc = "failed"
              /\ ask_question.status_code = 500
              /\ ask_question.answer = ""
        /\ Len(SelectSeq(loc.external, LAMBDA c : c.call = "completion")) = Len(loc.calls)
        /\ Len(SelectSeq(loc.external, LAMBDA c : c.call = "embedding")) = loc.nembed

\* an embedding call failed after the first completion and an earlier
\* embedding call had succeeded
C26_Witness ==
    /\ pc = "failed"
    /\ Len(loc.external) >= 3
    /\ loc.external[1].call = "completion"
    /\ loc.external[Len(loc.external)] = [call |-> "embedding", ok |-> FALSE]

\* the second completion call failed
C26_WitnessCompletion ==
    /\ pc = "failed"
    /\ Len(loc.calls) = 2
    /\ loc.external[Len(loc.external)] = [call |-> "completion", ok |-> FALSE]

\* C27: when process_query raises, the response has status 500 and no part of
\* its body is the text of the exception.
C27_GenericError ==
    pc = "failed" =>
        /\ ask_question.status_code = 500
        /\ \A i \in DOMAIN ask_question.detail : ask_question.detail[i] # loc.error

\* C28: a request whose query is empty or longer than 2000 characters gets
\* the response 422 and process_query does not run for it: no session is
\* created or changed and no completion or embedding call is made.
C28_InvalidRejected ==
    [][(pc = "idle" /\ pc' # "idle" /\ (Len(req'.query) = 0 \/ Len(req'.query) > 2000)) =>
          /\ pc' = "rejected"
          /\ ask_question'.status_code = 422
          /\ loc' = NoLoc
          /\ UNCHANGED <<memVars, indexVars>>]_vars

\* a request with a query of 2001 characters was rejected while a session exists
C28_Witness ==
    /\ pc = "rejected"
    /\ Len(req.query) = max_length + 1
    /\ DOMAIN sessions # {}

\* a request with an empty query was rejected
C28_WitnessEmpty == pc = "rejected" /\ req.query = ""

\* C31: the messages of the second completion call are those of the first
\* call, then the assistant message carrying the tool calls, then one tool
\* message per requested tool call, in request order, each with the id of the
\* call it answers.
C31_SecondCallMessages ==
    (InQuery /\ Len(loc.calls) = 2) =>
        LET before == loc.calls[1].messages
            sent == loc.calls[2].messages
            n == Len(before)
            m == Len(ToolCalls)
        IN  /\ Len(sent) = n + 1 + m
            /\ SubSeq(sent, 1, n) = before
            /\ sent[n + 1] = response_message(loc.response[1])
            /\ \A i \in 1..m :
                  /\ sent[n + 1 + i].role = "tool"
                  /\ sent[n + 1 + i].tool_call_id = tool_call_id(i)

\* C32: when process_query returns, the session named by the returned
\* session_id is in the store and its history ends with the user message of
\* this query followed by the returned answer as an assistant message.
C32_ReturnedSessionHoldsAnswer ==
    pc = "done" =>
        LET own == result.session_id
        IN  /\ own \in DOMAIN sessions
            /\ own \in DOMAIN session_timestamps
            /\ Len(sessions[own]) >= 2
            /\ LET h == sessions[own]
                   n == Len(h)
               IN  /\ h[n - 1].role = "user"
                   /\ h[n - 1].content = req.query
                   /\ h[n].role = "assistant"
                   /\ h[n].content = result.answer

\* the session of the query was in the store before the query, its last
\* message a user message: an earlier query on it was left without an answer
Unanswered ==
    /\ loc.session_id \in DOMAIN loc.pre.s
    /\ loc.pre.s[loc.session_id] # <<>>
    /\ loc.pre.s[loc.session_id][Len(loc.pre.s[loc.session_id])].role = "user"

\* C33: when a completion or embedding call has failed, the session of the
\* query is still in the store, with the timestamp of the query's append, and
\* its history ends with the user message of the query (after the system
\* message alone when the session was created by the query), without an
\* assistant message behind it; and the first completion call of a query on a
\* session left that way carries the unanswered user message immediately
\* followed by the new one.
C33_FailureKeepsUserMessage ==
    /\ (pc = "failed" /\ FailedCalls # {}) =>
          LET own == loc.session_id
          IN  /\ own \in DOMAIN sessions
              /\ session_timestamps[own] = loc.pre.now
              /\ LET h == sessions[own]
                     n == Len(h)
                 IN  /\ n >= 1
                     /\ h[n].role = "user"
                     /\ h[n].content = req.query
                     /\ own \notin DOMAIN loc.pre.s =>
                           n = 2 /\ h[1].role = "system"
    /\ (InQuery /\ Len(loc.calls) >= 1 /\ Unanswered) =>
          LET m == loc.calls[1].messages
              n == Len(m)
              old == loc.pre.s[loc.session_id]
          IN  /\ n >= 2
              /\ m[n].role = "user"
              /\ m[n].content = req.query
              /\ m[n - 1].role = "user"
              /\ m[n - 1].content = old[Len(old)].content

\* the first completion call of the second query carries the user message of
\* the first query, which had failed, followed by its own
C33_Witness ==
    /\ InQuery
    /\ nq = 2
    /\ Len(loc.calls) >= 1
    /\ Unanswered
    /\ loc.pre.s[loc.session_id][Len(loc.pre.s[loc.session_id])].content = Query(1)

\* an embedding call failed in a query on a new session
C33_WitnessFailed ==
    /\ pc = "failed"
    /\ FailedCalls # {}
    /\ loc.external[Len(loc.external)].call = "embedding"
    /\ loc.session_id \notin DOMAIN loc.pre.s

\* C34: the message map and the timestamp map always hold the same session
\* ids, and an id enters them only as the new id of a create_session call: a
\* call with an unknown or an evicted id creates no entry, and an evicted id is
\* never in the store again.
C34_MapsAgree ==
    /\ DOMAIN sessions = DOMAIN session_timestamps
    /\ [][/\ DOMAIN sessions' = DOMAIN session_timestamps'
          /\ \A sid \in DOMAIN sessions' \ DOMAIN sessions :
                /\ Called("create_session")
                /\ sid = nextId
                /\ nextId' > nextId
          /\ \A sid \in DOMAIN session_timestamps' \ DOMAIN session_timestamps :
                sid = nextId]_vars

\* get_history was called with the id of a session that had messages and is
\* not in the store any more
C34_Witness ==
    /\ lastCall.op = "get_history"
    /\ lastCall.sid \in 1..(nextId - 1)
    /\ lastCall.sid \notin DOMAIN sessions
    /\ lastCall.sid \notin DOMAIN session_timestamps
    /\ lastCall.h = <<>>
    /\ nappend > 0

\* the time of the last append to a session that has been appended to
LastAppend(sid) == appended[sid][Len(appended[sid])].timestamp

\* C35: get_history and session_exists leave the messages and the timestamp
\* of a live session as they were; the timestamp of a session changes only in
\* an add_message call that appends to it, which sets it to the time of the
\* call; so a call naming a session finds it valid exactly when no more than
\* the TTL has passed since its last append, whatever reads came in between.
C35_OnlyAppendsRefresh ==
    [][/\ (Called("get_history") \/ Called("session_exists")) =>
             \A sid \in DOMAIN sessions :
                 IsLive(sid) =>
                     /\ sid \in DOMAIN sessions'
                     /\ sessions'[sid] = sessions[sid]
                     /\ session_timestamps'[sid] = session_timestamps[sid]
       /\ \A sid \in DOMAIN session_timestamps \cap DOMAIN session_timestamps' :
             session_timestamps'[sid] # session_timestamps[sid] =>
                 /\ Called("add_message")
                 /\ lastCall'.sid = sid
                 /\ lastCall'.b
       /\ (Called("add_message") /\ lastCall'.b) =>
             session_timestamps'[lastCall'.sid] = now
       /\ \A sid \in DOMAIN sessions :
             (appended[sid] # <<>> /\ lastCall'.sid = sid
                 /\ lastCall'.op \in {"add_message", "get_history", "session_exists"}) =>
                 (lastCall'.b <=> now - LastAppend(sid) <= ttl)]_vars

\* a read at the last instant of the clock, more than the TTL after the last
\* append to the session it names, has found that session expired
C35_Witness ==
    /\ lastCall.op \in {"get_history", "session_exists"}
    /\ lastCall.sid \in 1..(nextId - 1)
    /\ ~lastCall.b
    /\ lastCall.sid \notin DOMAIN sessions
    /\ nappend > 0
    /\ now = MaxTime

\* a session appended to at time 0 is appended to again at the TTL and at
\* twice the TTL
C35_WitnessKeptAlive ==
    /\ lastCall.op = "add_message"
    /\ lastCall.b
    /\ now = 2 * ttl
    /\ Len(appended[lastCall.sid]) = 3
    /\ appended[lastCall.sid][1].timestamp = 0

====
